---- MODULE Spec2Model ----
(***************************************************************************)
(* TmuxCoder shared-state coordinator (PanelSyncManager), its state type   *)
(* (SharedApplicationState), the event bus history and the file            *)
(* repository (FileManager), as state machines.                            *)
(*                                                                         *)
(* Timestamps (time.Now()) are not part of the model.                      *)
(***************************************************************************)
EXTENDS Integers, Sequences, FiniteSets, TLC

VARIABLES
    state,          \* PanelSyncManager.state (*types.SharedApplicationState)
    eventHistory,   \* EventBus.eventHistory
    strategy,       \* the conflict resolver's ConflictStrategy
    last,           \* the most recent completed operation and its result
    submitted,      \* the number of update calls made so far
    disk,           \* the repository's files: the state file and its backup chain
    loaded,         \* the result of the most recent LoadStateAtomic
    procs,          \* per panel task: its position in UpdateWithVersionCheck and its call stack
    syncMutex,      \* the holder of manager.syncMutex, or NoHolder
    subscribers,    \* EventBus.subscribers and subscriberMeta: per panel id, its channel and counters
    delivered,      \* what the bus has put on the channels: bookkeeping for the order of events
    busMutex,       \* EventBus.mutex: its writer (or NoHolder) and its readers
    busTasks,       \* per task calling Broadcast or BroadcastToPanel: its position in the call
    saveQueue,      \* PanelSyncManager.saveQueue: the queued clones, oldest first
    autoSaveEnabled, \* PanelSyncManager.autoSaveEnabled
    saveTasks,      \* per task calling a typed update method: its position in the call
    manager,        \* the other fields of PanelSyncManager: lastSaveTime, ctx, metrics
    repo,           \* the FileManager's lock file, temp file and the tasks inside it
    published,      \* every event handed to broadcastUnsafe so far: bookkeeping for the history
    inspected,      \* the most recent call of EventBus.GetEventHistory and what it returned
    conn,           \* one connection of the IPC server: its state, handshake and last frame
    daemon,         \* the orchestrator: running or not, attached clients, last shutdown request
    supervisors,    \* per pane: its supervisor's state, failure count and cancellation token
    panes           \* per pane: the process tmux runs in it

appVars == <<state, eventHistory, strategy, last, submitted>>

saveVars == <<saveQueue, autoSaveEnabled, saveTasks>>

workVars == <<manager, repo>>

diskVars == <<disk, loaded, saveQueue, autoSaveEnabled, saveTasks, manager, repo>>

concVars == <<procs, syncMutex>>

lockVars == <<busMutex, busTasks>>

busVars == <<subscribers, delivered, busMutex, busTasks>>

inspectVars == <<published, inspected>>

paneVars == <<supervisors, panes>>

ctlVars == <<published, inspected, conn, daemon, supervisors, panes>>

vars == <<state, eventHistory, strategy, last, submitted, disk, loaded, procs, syncMutex,
          subscribers, delivered, busMutex, busTasks, saveQueue, autoSaveEnabled, saveTasks,
          manager, repo, published, inspected, conn, daemon, supervisors, panes>>

(***************************************************************************)
(* Bounds of the model                                                     *)
(***************************************************************************)
\* The number of update calls of one behaviour.
MaxCalls == 3

\* FileManager.backupRotation (FileManagerConfig.BackupRotation)
BackupRotation == 2

\* EventBus.maxHistory (NewEventBus argument; SyncManagerConfig.EventHistorySize)
MaxHistory == 2

\* The capacity of the channel a panel hands to Subscribe.
ChanCap == 1

(***************************************************************************)
(* Small helpers on sequences                                              *)
(***************************************************************************)
Min(S) == CHOOSE x \in S : \A y \in S : x <= y

\* seq without its i-th element: append(seq[:i], seq[i+1:]...)
RemoveAt(seq, i) == [j \in 1..(Len(seq) - 1) |-> IF j < i THEN seq[j] ELSE seq[j + 1]]

(***************************************************************************)
(* types/state.go                                                          *)
(***************************************************************************)
LastWriteWins == "last_write_wins"
VersionBased  == "version_based"
ManualResolve == "manual_resolve"

ConflictStrategy == {LastWriteWins, VersionBased, ManualResolve}

\* NewSharedApplicationState: version 1, source "init", no sessions, no messages.
\* CurrentMessage is a pointer: <<>> is nil, <<m>> points to a copy of m.
NewSharedApplicationState ==
    [ Version          |-> [Version |-> 1, Source |-> "init"],
      Sessions         |-> <<>>,
      CurrentSessionID |-> "",
      Messages         |-> <<>>,
      CurrentMessage   |-> <<>>,
      Input            |-> [Buffer |-> "", CursorPosition |-> 0, SelectionStart |-> 0,
                            SelectionEnd |-> 0, Mode |-> "normal"],
      Theme            |-> "opencode",
      Provider         |-> "",
      Model            |-> "",
      Agent            |-> "",
      UpdateCount      |-> 0 ]

\* The version and counter bump that AddSession, RemoveSession and
\* SetCurrentSession each perform on their own when they change something.
SelfBump(s) ==
    [s EXCEPT !.Version.Version = @ + 1, !.UpdateCount = @ + 1]

SessionIndices(s, id) == {i \in 1..Len(s.Sessions) : s.Sessions[i].ID = id}

HasSession(s, id) == SessionIndices(s, id) # {}

\* A variant of AddSession that appends without looking for the id.
AddSessionNoDedupe(s, session) ==
    SelfBump([s EXCEPT !.Sessions = Append(@, session)])

\* SharedApplicationState.AddSession: replace the session with the same id, or append.
AddSession(s, session) ==
    IF HasSession(s, session.ID)
    THEN SelfBump([s EXCEPT !.Sessions[Min(SessionIndices(s, session.ID))] = session])
    ELSE SelfBump([s EXCEPT !.Sessions = Append(@, session)])

\* A variant of RemoveSession whose index stays at the first session when no
\* session has the id.
RemoveSessionDefaultIndex(s, sessionID) ==
    IF HasSession(s, sessionID)
    THEN SelfBump([s EXCEPT
            !.Sessions = RemoveAt(@, Min(SessionIndices(s, sessionID))),
            !.CurrentSessionID = IF @ = sessionID THEN "" ELSE @])
    ELSE IF Len(s.Sessions) > 0 THEN SelfBump([s EXCEPT !.Sessions = RemoveAt(@, 1)])
    ELSE s

\* SharedApplicationState.RemoveSession: remove the first session with the id and
\* clear the selection if it was selected; nothing changes when the id is unknown.
RemoveSession(s, sessionID) ==
    IF HasSession(s, sessionID)
    THEN SelfBump([s EXCEPT
            !.Sessions = RemoveAt(@, Min(SessionIndices(s, sessionID))),
            !.CurrentSessionID = IF @ = sessionID THEN "" ELSE @])
    ELSE s

\* A variant of SetCurrentSession that clears the selection for an unknown id.
SetCurrentSessionClearing(s, sessionID) ==
    IF HasSession(s, sessionID)
    THEN SelfBump([s EXCEPT !.CurrentSessionID = sessionID])
    ELSE [s EXCEPT !.CurrentSessionID = ""]

\* SharedApplicationState.SetCurrentSession: select the session if it exists;
\* nothing changes (and false is returned) when the id is unknown.
SetCurrentSession(s, sessionID) ==
    IF HasSession(s, sessionID)
    THEN SelfBump([s EXCEPT !.CurrentSessionID = sessionID])
    ELSE s

(***************************************************************************)
(* types/updates.go: update types and payloads                             *)
(***************************************************************************)
SessionChanged    == "session_changed"
SessionAdded      == "session_added"
SessionDeleted    == "session_deleted"
SessionUpdated    == "session_updated"
MessageAdded      == "message_added"
MessageUpdated    == "message_updated"
MessageDeleted    == "message_deleted"
MessagesCleared   == "messages_cleared"
InputUpdated      == "input_updated"
CursorMoved       == "cursor_moved"
ThemeChanged      == "theme_changed"
ModelChanged      == "model_changed"
AgentChanged      == "agent_changed"
UIActionTriggered == "ui_action_triggered"

\* The payload structs, decoded: every field a payload does not carry is the
\* zero value. Session and Message are <<>> or a one-element sequence.
ZeroPayload ==
    [ SessionID |-> "", Session |-> <<>>, Message |-> <<>>, MessageID |-> "",
      Title |-> "", IsActive |-> FALSE, Content |-> "", Status |-> "",
      Buffer |-> "", CursorPosition |-> 0, SelectionStart |-> 0, SelectionEnd |-> 0,
      Mode |-> "", Position |-> 0, Theme |-> "", Provider |-> "", Model |-> "",
      Agent |-> "", Action |-> "" ]

SessionInfo(id, title, count) ==
    [ID |-> id, Title |-> title, MessageCount |-> count, IsActive |-> FALSE]

MessageInfo(id, sessionID, content) ==
    [ID |-> id, SessionID |-> sessionID, Type |-> "user", Content |-> content,
     Status |-> "pending"]

\* types.StateUpdate
StateUpdate(type, payload, panel, expected) ==
    [Type |-> type, ExpectedVersion |-> expected, Payload |-> payload,
     SourcePanel |-> panel]

(***************************************************************************)
(* PanelSyncManager.UpdateWithVersionCheck: the type switch                *)
(***************************************************************************)
\* case SessionAdded
SessionAddedCase(s, payload) == AddSession(s, payload.Session[1])

\* case SessionChanged: "don't fail if session doesn't exist"
SessionChangedCase(s, payload) == SetCurrentSession(s, payload.SessionID)

\* case SessionDeleted: "don't fail if it doesn't exist"
SessionDeletedCase(s, payload) == RemoveSession(s, payload.SessionID)

\* A variant of the MessageAdded case that refuses a message of an unknown session.
MessageAddedKnownOnly(s, payload) ==
    LET msg == payload.Message[1] IN
    IF HasSession(s, msg.SessionID)
    THEN [s EXCEPT !.Messages = Append(@, msg),
                   !.Sessions[Min(SessionIndices(s, msg.SessionID))].MessageCount = @ + 1,
                   !.CurrentMessage = <<msg>>]
    ELSE s

\* A variant of the MessageAdded case that moves the current-message pointer
\* only for a message of the selected session.
MessageAddedSelectedOnly(s, payload) ==
    LET msg == payload.Message[1]
        s1  == [s EXCEPT !.Messages = Append(@, msg)]
        s2  == IF HasSession(s1, msg.SessionID)
               THEN [s1 EXCEPT !.Sessions[Min(SessionIndices(s1, msg.SessionID))].MessageCount = @ + 1]
               ELSE s1
    IN  IF msg.SessionID = s.CurrentSessionID THEN [s2 EXCEPT !.CurrentMessage = <<msg>>] ELSE s2

\* case MessageAdded: append; count++ on the first session with the id, if any;
\* the current-message pointer is set to a copy of the message.
MessageAddedCase(s, payload) ==
    LET msg == payload.Message[1]
        s1  == [s EXCEPT !.Messages = Append(@, msg)]
        s2  == IF HasSession(s1, msg.SessionID)
               THEN [s1 EXCEPT !.Sessions[Min(SessionIndices(s1, msg.SessionID))].MessageCount = @ + 1]
               ELSE s1
    IN  [s2 EXCEPT !.CurrentMessage = <<msg>>]

MessageIndices(s, id) == {i \in 1..Len(s.Messages) : s.Messages[i].ID = id}

\* case MessageUpdated: the first message with the id; empty fields are kept.
MessageUpdatedCase(s, payload) ==
    IF MessageIndices(s, payload.MessageID) = {} THEN s
    ELSE LET i == Min(MessageIndices(s, payload.MessageID)) IN
         [s EXCEPT !.Messages[i].Content = IF payload.Content # "" THEN payload.Content ELSE @,
                   !.Messages[i].Status  = IF payload.Status # "" THEN payload.Status ELSE @]

\* case MessageDeleted: the first message with the id is removed; count-- on the
\* first session with its session id whose count is positive.
MessageDeletedCase(s, payload) ==
    IF MessageIndices(s, payload.MessageID) = {} THEN s
    ELSE LET i   == Min(MessageIndices(s, payload.MessageID))
             sid == s.Messages[i].SessionID
             js  == {j \in SessionIndices(s, sid) : s.Sessions[j].MessageCount > 0}
             s1  == IF js = {} THEN s
                    ELSE [s EXCEPT !.Sessions[Min(js)].MessageCount = @ - 1]
         IN  [s1 EXCEPT !.Messages = RemoveAt(@, i)]

\* case MessagesCleared: drop the session's messages, count = 0 on the first
\* session with the id.
MessagesClearedCase(s, payload) ==
    LET s1 == [s EXCEPT !.Messages = SelectSeq(@, LAMBDA m : m.SessionID # payload.SessionID)]
    IN  IF HasSession(s1, payload.SessionID)
        THEN [s1 EXCEPT !.Sessions[Min(SessionIndices(s1, payload.SessionID))].MessageCount = 0]
        ELSE s1

\* case InputUpdated
InputUpdatedCase(s, payload) ==
    [s EXCEPT !.Input.Buffer = payload.Buffer,
              !.Input.CursorPosition = payload.CursorPosition,
              !.Input.SelectionStart = payload.SelectionStart,
              !.Input.SelectionEnd = payload.SelectionEnd,
              !.Input.Mode = IF payload.Mode # "" THEN payload.Mode ELSE @]

\* case CursorMoved
CursorMovedCase(s, payload) ==
    [s EXCEPT !.Input.CursorPosition = payload.Position,
              !.Input.SelectionStart = payload.SelectionStart,
              !.Input.SelectionEnd = payload.SelectionEnd]

\* The switch on update.Type. SessionUpdated has no case of its own: it falls to
\* default ("Bumping version only"), like UIActionTriggered changes nothing here.
ApplyPayload(s, u) ==
    CASE u.Type = SessionAdded    -> SessionAddedCase(s, u.Payload)
      [] u.Type = SessionChanged  -> SessionChangedCase(s, u.Payload)
      [] u.Type = SessionDeleted  -> SessionDeletedCase(s, u.Payload)
      [] u.Type = MessageAdded    -> MessageAddedCase(s, u.Payload)
      [] u.Type = MessageUpdated  -> MessageUpdatedCase(s, u.Payload)
      [] u.Type = MessageDeleted  -> MessageDeletedCase(s, u.Payload)
      [] u.Type = MessagesCleared -> MessagesClearedCase(s, u.Payload)
      [] u.Type = InputUpdated    -> InputUpdatedCase(s, u.Payload)
      [] u.Type = CursorMoved     -> CursorMovedCase(s, u.Payload)
      [] u.Type = ThemeChanged    -> [s EXCEPT !.Theme = u.Payload.Theme]
      [] u.Type = ModelChanged    -> [s EXCEPT !.Provider = u.Payload.Provider,
                                               !.Model = u.Payload.Model]
      [] u.Type = AgentChanged    -> [s EXCEPT !.Agent = u.Payload.Agent]
      [] OTHER                    -> s

\* A variant of the version stamp that leaves the version record's source alone.
StampVersionKeepSource(s, u) ==
    [s EXCEPT !.Version.Version = @ + 1, !.UpdateCount = @ + 1]

\* "Increment version and update timestamps for any successful change"
StampVersion(s, u) ==
    [s EXCEPT !.Version.Version = @ + 1,
              !.Version.Source = u.SourcePanel,
              !.UpdateCount = @ + 1]

(***************************************************************************)
(* Event bus                                                               *)
(***************************************************************************)
\* A variant of CreateEventFromUpdate whose switch has no case for
\* UIActionTriggered.
CreateEventWithoutUIAction(u, version) ==
    [ Type |-> IF u.Type \in {SessionChanged, SessionAdded, SessionDeleted, SessionUpdated,
                              MessageAdded, MessageUpdated, MessageDeleted, MessagesCleared,
                              InputUpdated, CursorMoved, ThemeChanged, ModelChanged,
                              AgentChanged}
               THEN u.Type ELSE "state_sync",
      Data |-> u.Payload,
      Version |-> version,
      SourcePanel |-> u.SourcePanel ]

\* CreateEventFromUpdate: the event type has the update type's name; an
\* unknown update type becomes state_sync.
CreateEventFromUpdate(u, version) ==
    [ Type |-> IF u.Type \in {SessionChanged, SessionAdded, SessionDeleted, SessionUpdated,
                              MessageAdded, MessageUpdated, MessageDeleted, MessagesCleared,
                              InputUpdated, CursorMoved, ThemeChanged, ModelChanged,
                              AgentChanged, UIActionTriggered}
               THEN u.Type ELSE "state_sync",
      Data |-> u.Payload,
      Version |-> version,
      SourcePanel |-> u.SourcePanel ]

\* addToHistoryUnsafe: append, then drop the oldest event beyond maxHistory.
addToHistoryUnsafe(history, event) ==
    LET h == Append(history, event) IN
    IF Len(h) > MaxHistory THEN SubSeq(h, 2, MaxHistory + 1) ELSE h

\* The no-conflict path of UpdateWithVersionCheck, under syncMutex: apply the
\* payload, stamp the version, create and broadcast the event.
ApplyAndBroadcast(s, history, u) ==
    LET s1 == StampVersion(ApplyPayload(s, u), u) IN
    [ state   |-> s1,
      history |-> addToHistoryUnsafe(history, CreateEventFromUpdate(u, s1.Version.Version)),
      err     |-> "nil" ]

\* the panels that subscribe to the bus; an update may also come from another source
BusPanels == {"sessions", "messages"}

\* subscribers[p] when p is not in the subscriber map
NoSubscriber == [subscribed |-> FALSE, chan |-> <<>>, PanelType |-> "", EventCount |-> 0]

\* the bookkeeping before anything was broadcast: placed[p] is the version of the
\* last update event put on p's channel (0: none), accepted the versions of the
\* update events broadcast so far
NothingDelivered == [placed |-> [p \in BusPanels |-> 0], accepted |-> {}]

\* the channel has room for one more event
HasCapacity(sub) == Len(sub.chan) < ChanCap

\* A variant of the send without the default case of its select: it can
\* proceed only when the channel has room.
CanSendOnlyWithRoom(sub) == HasCapacity(sub)

\* The send is a select with a default case: it can always proceed.
CanSend(sub) == TRUE

\* broadcastUnsafe, for one subscriber: the metadata is updated, then the
\* event is sent without blocking and dropped when the channel is full.
Send(sub, event) ==
    [sub EXCEPT !.EventCount = @ + 1,
                !.chan = IF HasCapacity(sub) THEN Append(@, event) ELSE @]

\* A variant of broadcastUnsafe that does not skip the excluded panel.
broadcastToAll(subs, history, event, excludePanel) ==
    [ subscribers |-> [p \in BusPanels |->
                          IF subs[p].subscribed THEN Send(subs[p], event) ELSE subs[p]],
      history |-> addToHistoryUnsafe(history, event) ]

\* broadcastUnsafe: the event goes to the history and to every subscriber
\* except excludePanel.
broadcastUnsafe(subs, history, event, excludePanel) ==
    [ subscribers |-> [p \in BusPanels |->
                          IF subs[p].subscribed /\ p # excludePanel
                          THEN Send(subs[p], event) ELSE subs[p]],
      history |-> addToHistoryUnsafe(history, event) ]

\* EventBus.Broadcast
Broadcast(subs, history, event) == broadcastUnsafe(subs, history, event, event.SourcePanel)

\* the panel_connected or panel_disconnected event the bus makes up
ConnectionEvent(type, panelID, panelType) ==
    [ Type |-> type, Data |-> [PanelID |-> panelID, PanelType |-> panelType],
      Version |-> 0, SourcePanel |-> "system" ]

\* A variant of Subscribe that registers the panel and tells nobody.
SubscribeSilently(subs, history, panelID, panelType) ==
    [ subscribers |-> [subs EXCEPT ![panelID] = [subscribed |-> TRUE, chan |-> <<>>,
                                                PanelType |-> panelType, EventCount |-> 0]],
      history |-> history ]

\* EventBus.Subscribe: register the panel with its (empty) channel, then
\* broadcast panel_connected to the others.
SubscribeCall(subs, history, panelID, panelType) ==
    broadcastUnsafe([subs EXCEPT ![panelID] = [subscribed |-> TRUE, chan |-> <<>>,
                                              PanelType |-> panelType, EventCount |-> 0]],
                    history, ConnectionEvent("panel_connected", panelID, panelType), panelID)

\* EventBus.Unsubscribe: for a subscribed panel, close and remove its channel,
\* then broadcast panel_disconnected to the others; else nothing.
UnsubscribeCall(subs, history, panelID) ==
    IF subs[panelID].subscribed
    THEN broadcastUnsafe([subs EXCEPT ![panelID] = NoSubscriber], history,
             ConnectionEvent("panel_disconnected", panelID, subs[panelID].PanelType), panelID)
    ELSE [subscribers |-> subs, history |-> history]

\* no call of GetEventHistory yet
NothingInspected == [maxEvents |-> 0, events |-> <<>>]

\* the zero HandshakeMessage and IPCMessage; Timestamp 0 is the zero time
NoHandshake == [Type |-> "", PanelID |-> "", PanelType |-> "", Version |-> ""]

NoFrame == [Type |-> "", Timestamp |-> 0]

\* a nil error of a validator
NoValidationError == [Field |-> "", Message |-> ""]

\* a connection the server has just accepted
AcceptedConnection ==
    [state |-> "Connected", handshake |-> NoHandshake, frame |-> NoFrame,
     err |-> NoValidationError]

\* orch.sessionOwner, recorded on Start()
sessionOwner == [UID |-> 1000, Username |-> "owner"]

\* a shutdown request before the first one
NoRequest == [UID |-> sessionOwner.UID, cleanup |-> FALSE]

\* the tmux clients that attach to the session
Clients == {"c1", "c2", "c3"}

\* the orchestrator after Start(): running, one client attached
StartedDaemon ==
    [running |-> TRUE, cleanup |-> FALSE, clients |-> {"c1"}, request |-> NoRequest,
     err |-> "nil"]

\* the panes of the session
PaneTargets == {"s:0.0", "s:0.1"}

\* the command and environment a pane is configured with
PaneConfig(target) ==
    [command |-> IF target = "s:0.0" THEN "sessions-panel" ELSE "messages-panel",
     env |-> "SOCKET=/tmp/s.sock"]

\* a pane in which nothing was started yet
EmptyPane == [alive |-> FALSE, command |-> "", env |-> "", respawned |-> FALSE]

\* a supervisor before start()
NewSupervisor == [state |-> "NotStarted", failures |-> 0, cancelled |-> FALSE]

\* the bus inspector before its first call, nothing broadcast; one accepted
\* connection, the orchestrator started, no pane started
InitControl ==
    /\ published = <<>>
    /\ inspected = NothingInspected
    /\ conn = AcceptedConnection
    /\ daemon = StartedDaemon
    /\ supervisors = [t \in PaneTargets |-> NewSupervisor]
    /\ panes = [t \in PaneTargets |-> EmptyPane]

(***************************************************************************)
(* Conflict resolver and the update path, one call run to completion       *)
(***************************************************************************)
\* The number of attempts of the version_based strategy.
MaxRetries == 3

\* A variant of the failed-resolution path where the missing early return lets
\* the update be applied although the conflict error is returned.
ConflictErrorFallThrough(s, history, u) ==
    [ApplyAndBroadcast(s, history, u) EXCEPT !.err = "conflict"]

\* UpdateWithVersionCheck when the resolver did not succeed: "fall through to
\* original error"; nothing is applied and nothing is broadcast.
ConflictError(s, history, u) ==
    [state |-> s, history |-> history, err |-> "conflict"]

RECURSIVE UpdateWithVersionCheckCall(_, _, _, _)
RECURSIVE ResolveConflictCall(_, _, _, _)

\* ConflictResolver.ResolveConflict with no other update in flight:
\* last_write_wins re-stamps the expected version to the current one and applies,
\* version_based retries with a fresh expected version (its first attempt meets
\* no further conflict), manual_resolve returns the conflict.
ResolveConflictCall(s, history, u, strat) ==
    IF strat = ManualResolve \/ (strat = VersionBased /\ MaxRetries < 1)
    THEN ConflictError(s, history, u)
    ELSE UpdateWithVersionCheckCall(s, history,
             [u EXCEPT !.ExpectedVersion = s.Version.Version], strat)

\* PanelSyncManager.UpdateWithVersionCheck with no other update in flight.
UpdateWithVersionCheckCall(s, history, u, strat) ==
    IF s.Version.Version # u.ExpectedVersion
    THEN LET r == ResolveConflictCall(s, history, u, strat) IN
         IF r.err = "nil" THEN r ELSE ConflictError(s, history, u)
    ELSE ApplyAndBroadcast(s, history, u)

(***************************************************************************)
(* The updates the panels submit                                           *)
(***************************************************************************)
Update(type, payload, panel) == StateUpdate(type, payload, panel, 0)

NoUpdate == Update("", ZeroPayload, "")

SessionIDs == {"a", "b"}

SessionsPanelUpdates ==
    {Update(SessionAdded, [ZeroPayload EXCEPT !.Session = <<SessionInfo("a", "Alpha", 0)>>], "sessions"),
     Update(SessionAdded, [ZeroPayload EXCEPT !.Session = <<SessionInfo("b", "Beta", 0)>>], "sessions"),
     Update(SessionUpdated, [ZeroPayload EXCEPT !.SessionID = "a", !.Title = "Renamed",
                                                !.IsActive = TRUE], "sessions")}
    \cup {Update(SessionChanged, [ZeroPayload EXCEPT !.SessionID = id], "sessions") : id \in SessionIDs}
    \cup {Update(SessionDeleted, [ZeroPayload EXCEPT !.SessionID = id], "sessions") : id \in SessionIDs}

MessagesPanelUpdates ==
    {Update(MessageAdded, [ZeroPayload EXCEPT !.Message = <<MessageInfo("m1", "a", "hi")>>], "messages"),
     Update(MessageAdded, [ZeroPayload EXCEPT !.Message = <<MessageInfo("m2", "b", "yo")>>], "messages"),
     Update(MessageUpdated, [ZeroPayload EXCEPT !.MessageID = "m1", !.Content = "edited"], "messages"),
     Update(MessageDeleted, [ZeroPayload EXCEPT !.MessageID = "m1"], "messages"),
     Update(MessagesCleared, [ZeroPayload EXCEPT !.SessionID = "a"], "messages")}

InputPanelUpdates ==
    {Update(InputUpdated, [ZeroPayload EXCEPT !.Buffer = "ls", !.CursorPosition = 2,
                                              !.Mode = "command"], "input"),
     Update(CursorMoved, [ZeroPayload EXCEPT !.Position = 1], "input")}

ControllerUpdates ==
    {Update(ThemeChanged, [ZeroPayload EXCEPT !.Theme = "dark"], "controller"),
     Update(ModelChanged, [ZeroPayload EXCEPT !.Provider = "p", !.Model = "m"], "controller"),
     Update(AgentChanged, [ZeroPayload EXCEPT !.Agent = "build"], "controller"),
     Update(UIActionTriggered, [ZeroPayload EXCEPT !.Action = "open"], "controller")}

Updates == SessionsPanelUpdates \cup MessagesPanelUpdates \cup InputPanelUpdates
           \cup ControllerUpdates

\* The expected versions a panel may carry: the current one, or the one before.
ExpectedVersions(s) == {v \in {s.Version.Version - 1, s.Version.Version} : v >= 1}

(***************************************************************************)
(* persistence/file_manager.go                                             *)
(***************************************************************************)
\* A file is <<>> when it does not exist, else the sequence of JSON documents
\* written to it. A document is given by its top-level "version" member, a JSON
\* string or a JSON object, and by the rest of its members.
JSONString(str) == [type |-> "string", string |-> str, object |-> <<>>]

JSONObject(obj) == [type |-> "object", string |-> "", object |-> <<obj>>]

\* StateMetadata{Version: "1.0", Checksum: ""} encoded
MetadataDocument ==
    [version |-> JSONString("1.0"), members |-> <<>>]

\* json encoding of SharedApplicationState (MarshalJSON of a clone), by the
\* struct tags; current_message is omitted when nil.
EncodeState(s) ==
    [ version |-> JSONObject([version |-> s.Version.Version, source |-> s.Version.Source]),
      members |-> <<[ sessions |-> [i \in 1..Len(s.Sessions) |->
                                      [id |-> s.Sessions[i].ID, title |-> s.Sessions[i].Title,
                                       message_count |-> s.Sessions[i].MessageCount,
                                       is_active |-> s.Sessions[i].IsActive]],
                      current_session_id |-> s.CurrentSessionID,
                      messages |-> [i \in 1..Len(s.Messages) |->
                                      [id |-> s.Messages[i].ID, session_id |-> s.Messages[i].SessionID,
                                       type |-> s.Messages[i].Type, content |-> s.Messages[i].Content,
                                       status |-> s.Messages[i].Status]],
                      current_message |-> [i \in 1..Len(s.CurrentMessage) |->
                                      [id |-> s.CurrentMessage[i].ID,
                                       session_id |-> s.CurrentMessage[i].SessionID,
                                       type |-> s.CurrentMessage[i].Type,
                                       content |-> s.CurrentMessage[i].Content,
                                       status |-> s.CurrentMessage[i].Status]],
                      input |-> [buffer |-> s.Input.Buffer, cursor_position |-> s.Input.CursorPosition,
                                 selection_start |-> s.Input.SelectionStart,
                                 selection_end |-> s.Input.SelectionEnd, mode |-> s.Input.Mode],
                      theme |-> s.Theme, provider |-> s.Provider, model |-> s.Model,
                      agent |-> s.Agent, update_count |-> s.UpdateCount ]>> ]

DecodeMessage(m) ==
    [ID |-> m.id, SessionID |-> m.session_id, Type |-> m.type, Content |-> m.content,
     Status |-> m.status]

\* decoder.Decode(&metadata): a document whose "version" is not a JSON string
\* does not decode into StateMetadata.
DecodeMetadata(doc) ==
    IF doc.version.type = "string"
    THEN [err |-> "nil", Version |-> doc.version.string]
    ELSE [err |-> "unmarshal", Version |-> ""]

\* decoder.Decode(&state): a document whose "version" is not a JSON object does
\* not decode into SharedApplicationState (Version is a struct).
DecodeState(doc) ==
    IF doc.version.type = "object"
    THEN LET v == doc.version.object[1]
             m == doc.members[1]
         IN [ err |-> "nil",
              state |-> <<[ Version |-> [Version |-> v.version, Source |-> v.source],
                  Sessions |-> [i \in 1..Len(m.sessions) |->
                                  [ID |-> m.sessions[i].id, Title |-> m.sessions[i].title,
                                   MessageCount |-> m.sessions[i].message_count,
                                   IsActive |-> m.sessions[i].is_active]],
                  CurrentSessionID |-> m.current_session_id,
                  Messages |-> [i \in 1..Len(m.messages) |-> DecodeMessage(m.messages[i])],
                  CurrentMessage |-> [i \in 1..Len(m.current_message) |->
                                        DecodeMessage(m.current_message[i])],
                  Input |-> [Buffer |-> m.input.buffer, CursorPosition |-> m.input.cursor_position,
                             SelectionStart |-> m.input.selection_start,
                             SelectionEnd |-> m.input.selection_end, Mode |-> m.input.mode],
                  Theme |-> m.theme, Provider |-> m.provider, Model |-> m.model,
                  Agent |-> m.agent, UpdateCount |-> m.update_count ]>> ]
    ELSE [err |-> "unmarshal", state |-> <<>>]

\* writeStateToFile: the metadata header, then the state.
writeStateToFile(s) == <<MetadataDocument, EncodeState(s)>>

\* verifyFileIntegrity: the first document must decode as metadata with a
\* version; the file position is then reset to the start.
verifyFileIntegrity(file) ==
    IF Len(file) = 0 THEN "corruption"
    ELSE LET metadata == DecodeMetadata(file[1]) IN
         IF metadata.err # "nil" \/ metadata.Version = "" THEN "corruption" ELSE "nil"

\* validateState: positive version, non-empty unique session ids, and a
\* current session that exists if set.
validateState(s) ==
    /\ s.Version.Version > 0
    /\ \A i \in 1..Len(s.Sessions) : s.Sessions[i].ID # ""
    /\ \A i, j \in 1..Len(s.Sessions) : s.Sessions[i].ID = s.Sessions[j].ID => i = j
    /\ s.CurrentSessionID # "" => HasSession(s, s.CurrentSessionID)

\* disk.backups[i + 1] is .backup for i = 0 and .backup.i for i = 1..BackupRotation
EmptyDisk == [state |-> <<>>, backups |-> [i \in 1..(BackupRotation + 1) |-> <<>>]]

NothingLoaded == [err |-> "none", state |-> <<>>]

Exists(file) == file # <<>>

\* rotateBackups, the loop over the numbered backups from i down to 1:
\* .backup.i is renamed to .backup.(i+1) when it exists.
RECURSIVE rotateNumbered(_, _)
rotateNumbered(backups, i) ==
    IF i < 1 THEN backups
    ELSE IF Exists(backups[i + 1])
         THEN rotateNumbered([backups EXCEPT ![i + 2] = backups[i + 1], ![i + 1] = <<>>], i - 1)
         ELSE rotateNumbered(backups, i - 1)

\* rotateBackups
rotateBackups(backups) ==
    IF BackupRotation <= 1 THEN [backups EXCEPT ![1] = <<>>]
    ELSE LET b == rotateNumbered(backups, BackupRotation - 1) IN
         IF Exists(b[1]) THEN [b EXCEPT ![2] = b[1], ![1] = <<>>] ELSE b

\* backupExistingFile: rotate, then copy the state file to .backup.
backupExistingFile(d) ==
    IF ~Exists(d.state) THEN d
    ELSE [d EXCEPT !.backups = [rotateBackups(d.backups) EXCEPT ![1] = d.state]]

\* SaveStateAtomic without an I/O failure: temp file, backup, rename.
SaveStateAtomicCall(d, s) ==
    [backupExistingFile(d) EXCEPT !.state = writeStateToFile(s)]

\* A variant of the fallback that tries .backup alone.
loadBackupOnly(d, i) ==
    LET file == d.backups[1]
        r == IF Len(file) >= 2 THEN DecodeState(file[2])
             ELSE [err |-> "eof", state |-> <<>>]
    IN IF Exists(file) /\ r.err = "nil" /\ validateState(r.state[1])
       THEN [err |-> "nil", state |-> r.state]
       ELSE [err |-> "backup_not_found", state |-> <<>>]

\* loadFromBackup, from backup path i on: skip the metadata, decode the state,
\* validate; the first backup that passes is returned.
RECURSIVE loadFromBackup(_, _)
loadFromBackup(d, i) ==
    IF i > BackupRotation THEN [err |-> "backup_not_found", state |-> <<>>]
    ELSE LET file == d.backups[i + 1]
             r == IF Len(file) >= 2 THEN DecodeState(file[2])
                  ELSE [err |-> "eof", state |-> <<>>]
         IN IF Exists(file) /\ r.err = "nil" /\ validateState(r.state[1])
            THEN [err |-> "nil", state |-> r.state]
            ELSE loadFromBackup(d, i + 1)

\* LoadStateAtomic: after verifyFileIntegrity the state is decoded from the
\* start of the file, where the metadata document is.
LoadStateAtomicCall(d) ==
    IF ~Exists(d.state) THEN [err |-> "file_not_found", state |-> <<>>]
    ELSE IF verifyFileIntegrity(d.state) # "nil" THEN loadFromBackup(d, 0)
    ELSE LET r == DecodeState(d.state[1]) IN
         IF r.err # "nil" THEN loadFromBackup(d, 0)
         ELSE IF ~validateState(r.state[1]) THEN [err |-> "validation", state |-> <<>>]
         ELSE [err |-> "nil", state |-> r.state]

(***************************************************************************)
(* Panel tasks calling UpdateWithVersionCheck concurrently                 *)
(***************************************************************************)
\* the panel tasks that call the coordinator concurrently
Panels == {"A", "B"}

\* syncMutex is held by no task
NoHolder == "none"

\* A call-stack frame: UpdateWithVersionCheck with the expected version of the
\* update it was given, or ResolveConflict with the number of its attempt.
Frame(fn, expected, attempt) == [fn |-> fn, expected |-> expected, attempt |-> attempt]

\* A task: pc is "idle", "lock" (at syncMutex.Lock), "check" (holding the
\* mutex, at the version check), "resolve" (at the start of an attempt of
\* ResolveConflict), "fail" (UpdateWithVersionCheck building its conflict
\* error) or "done"; resolved counts the resolver invocations of the call.
IdleTask == [pc |-> "idle", update |-> NoUpdate, stack |-> <<>>, err |-> "nil", resolved |-> 0]

Top(stack) == stack[Len(stack)]

Pop(stack) == SubSeq(stack, 1, Len(stack) - 1)

\* the tasks that call Broadcast and BroadcastToPanel concurrently
BusTasks == {"T1", "T2"}

\* EventBus.mutex (sync.RWMutex) held by nobody
Unlocked == [writer |-> NoHolder, readers |-> {}]

\* the state_sync event of ForceFullSync
StateSyncEvent(s) ==
    [Type |-> "state_sync", Data |-> [State |-> s], Version |-> s.Version.Version,
     SourcePanel |-> "system"]

\* A task of the bus: pc is "idle", "lock" (at mutex.Lock of Broadcast), "send"
\* (in the loop of broadcastUnsafe, pending the subscribers still to serve),
\* "rlock" (at mutex.RLock of BroadcastToPanel), "sendto" or "runlock".
IdleBusTask ==
    [pc |-> "idle", event |-> StateSyncEvent(NewSharedApplicationState), target |-> "",
     pending |-> {}]

\* the tasks that call the typed update methods of the coordinator
SaveTasks == {"S1", "S2"}

\* A caller of a typed update method: pc is "idle", "resolve" (in
\* applyUpdateWithEvents, before the resolver has the lock), "apply" (inside
\* UpdateWithVersionCheck, syncMutex held) or "queue" (the resolver returned
\* success; post is the state the update left).
IdleSaveTask == [pc |-> "idle", update |-> NoUpdate, post |-> NewSharedApplicationState]

\* The fields of PanelSyncManager that the background savers use, as
\* NewPanelSyncManager leaves them. saveDue stands for
\* time.Since(lastSaveTime) >= autoSaveInterval.
\* stop is the position of Stop ("running" before it is called), workerExited
\* and tickerExited tell that saveWorker and autoSaveWorker have returned.
\* snapshots are the states handed to panels: shared tells that the panel
\* holds the pointer manager.state itself, value is what the panel sees.
NewManager ==
    [saveDue |-> TRUE, ctxDone |-> FALSE, queueClosed |-> FALSE, stop |-> "running",
     workerExited |-> FALSE, tickerExited |-> FALSE, FailedSaves |-> 0, snapshots |-> <<>>]

\* manager.lastSaveTime = time.Now() after a save that succeeded
SavedNow(m) == [m EXCEPT !.saveDue = FALSE]

\* the goroutines that call the repository: two of one process and one of
\* another process that has a FileManager of its own on the same state path
RepoTasks == {"P.1", "P.2", "Q.1"}

Processes == {"P", "Q"}

Proc(t) == IF t = "Q.1" THEN "Q" ELSE "P"

\* no lock file at lockPath
NoFile == [creator |-> NoHolder, old |-> FALSE]

\* A goroutine outside the repository. pc is "idle", "acquire", "create",
\* "flock" (in acquireFileLock), "write", "rotate", "copy", "rename" (in
\* SaveStateAtomic), "read" (in LoadStateAtomic), "release" or "dead"; temp is
\* the goroutine's temp file.
IdleRepoTask ==
    [pc |-> "idle", op |-> "", payload |-> NewSharedApplicationState, temp |-> <<>>,
     err |-> "nil"]

\* The files and FileManagers with no call in progress: lockFile is the file
\* at lockPath (old: its age is beyond lockTimeout), fileLock and lockMutex
\* are the fields of each process's FileManager.
NewRepository ==
    [lockFile |-> NoFile,
     fileLock |-> [p \in Processes |-> NoHolder],
     lockMutex |-> [p \in Processes |-> NoHolder],
     tasks |-> [t \in RepoTasks |-> IdleRepoTask]]

(***************************************************************************)
(* Spec: updates applied one call at a time                                *)
(***************************************************************************)
Init ==
    /\ state = NewSharedApplicationState
    /\ eventHistory = <<>>
    /\ strategy \in ConflictStrategy
    /\ last = [op |-> "init", update |-> NoUpdate, err |-> "nil"]
    /\ submitted = 0
    /\ disk = EmptyDisk
    /\ loaded = NothingLoaded
    /\ procs = [p \in Panels |-> IdleTask]
    /\ syncMutex = NoHolder
    /\ subscribers = [p \in BusPanels |-> NoSubscriber]
    /\ delivered = NothingDelivered
    /\ busMutex = Unlocked
    /\ busTasks = [t \in BusTasks |-> IdleBusTask]
    /\ saveQueue = <<>>
    /\ autoSaveEnabled = TRUE
    /\ saveTasks = [t \in SaveTasks |-> IdleSaveTask]
    /\ manager = NewManager
    /\ repo = NewRepository
    /\ InitControl

\* One call of UpdateWithVersionCheck, resolver included.
UpdateWithVersionCheck(u) ==
    /\ submitted < MaxCalls
    /\ submitted' = submitted + 1
    /\ LET r == UpdateWithVersionCheckCall(state, eventHistory, u, strategy) IN
        /\ state' = r.state
        /\ eventHistory' = r.history
        /\ last' = [op |-> "update", update |-> u, err |-> r.err]
    /\ UNCHANGED <<strategy, ctlVars, diskVars, concVars, busVars>>

Next ==
    \/ \E u \in Updates : \E v \in ExpectedVersions(state) :
          UpdateWithVersionCheck([u EXCEPT !.ExpectedVersion = v])

Spec == Init /\ [][Next]_vars

(***************************************************************************)
(* Properties of the update path (checked under Spec)                      *)
(***************************************************************************)
\* A step that is one update call; last' holds the update and its result.
UpdateStep == submitted' = submitted + 1

AcceptedStep == UpdateStep /\ last'.err = "nil"

LastAccepted(type) ==
    last.op = "update" /\ last.err = "nil" /\ last.update.Type = type

\* C1: every accepted update, of any type, moves the version from v to v + 1.
C1_VersionPlusOnePerUpdate ==
    [][AcceptedStep => state'.Version.Version = state.Version.Version + 1]_vars

\* C5: session ids are pairwise distinct, and the current-session id is empty
\* or the id of a session in the list.
C5_UniqueIdsAndValidSelection ==
    /\ \A i, j \in 1..Len(state.Sessions) :
          state.Sessions[i].ID = state.Sessions[j].ID => i = j
    /\ state.CurrentSessionID = "" \/ HasSession(state, state.CurrentSessionID)

\* C5 witness: a SessionAdded of an id that the previous accepted update had
\* already added was accepted, and the list holds that session once.
C5_Witness ==
    /\ LastAccepted(SessionAdded)
    /\ Len(eventHistory) = 2
    /\ eventHistory[1].Type = SessionAdded
    /\ eventHistory[1].Data.Session[1].ID = last.update.Payload.Session[1].ID
    /\ Len(state.Sessions) = 1

\* C6: every session's message_count is the number of messages of that session.
C6_MessageCountMatches ==
    \A i \in 1..Len(state.Sessions) :
        state.Sessions[i].MessageCount =
            Cardinality({j \in 1..Len(state.Messages) :
                            state.Messages[j].SessionID = state.Sessions[i].ID})

C8_UnknownSelectionClears ==
    [][(AcceptedStep /\ last'.update.Type = SessionChanged
            /\ ~HasSession(state, last'.update.Payload.SessionID))
        => state'.CurrentSessionID = ""]_vars

\* C8 amended: a SessionChanged naming an unknown session is accepted without
\* error when its expected version is current, and leaves the current-session
\* id as it was.
C8_UnknownSelectionKeeps ==
    [][(UpdateStep /\ last'.update.Type = SessionChanged
            /\ ~HasSession(state, last'.update.Payload.SessionID))
        => /\ state'.CurrentSessionID = state.CurrentSessionID
           /\ last'.update.ExpectedVersion = state.Version.Version => last'.err = "nil"]_vars

\* C8 witness: a SessionChanged naming an unknown session was accepted while a
\* session was selected.
C8_Witness ==
    /\ LastAccepted(SessionChanged)
    /\ ~HasSession(state, last.update.Payload.SessionID)
    /\ state.CurrentSessionID # ""

\* C9: after an accepted update the version record's source is the update's
\* source panel.
C9_SourceIsLastSubmitter ==
    (last.op = "update" /\ last.err = "nil")
        => state.Version.Source = last.update.SourcePanel

\* C9 witness: two updates from different panels were accepted in a row.
C9_Witness ==
    /\ last.op = "update" /\ last.err = "nil"
    /\ Len(eventHistory) = 2
    /\ eventHistory[1].SourcePanel # eventHistory[2].SourcePanel
    /\ eventHistory[2].SourcePanel = last.update.SourcePanel

PersistUpdates ==
    {u \in Updates :
        \/ u.Type = ThemeChanged
        \/ u.Type = SessionChanged /\ u.Payload.SessionID = "a"
        \/ u.Type = SessionAdded /\ u.Payload.Session[1].ID = "a"
        \/ u.Type = MessageAdded /\ u.Payload.Message[1].ID = "m1"}

\* saveStateSync: a clone of the state is handed to repository.SaveStateAtomic.
SaveStateSync ==
    /\ disk' = SaveStateAtomicCall(disk, state)
    /\ manager' = SavedNow(manager)
    /\ last' = [op |-> "save", update |-> NoUpdate, err |-> "nil"]
    /\ UNCHANGED <<state, eventHistory, strategy, ctlVars, submitted, loaded, concVars, busVars, saveVars, repo>>

\* repository.LoadStateAtomic
LoadStateAtomic ==
    /\ loaded' = LoadStateAtomicCall(disk)
    /\ last' = [op |-> "load", update |-> NoUpdate, err |-> loaded'.err]
    /\ UNCHANGED <<state, eventHistory, strategy, ctlVars, submitted, disk, concVars, busVars, saveVars, workVars>>

NextPersist ==
    \/ \E u \in PersistUpdates :
          UpdateWithVersionCheck([u EXCEPT !.ExpectedVersion = state.Version.Version])
    \/ SaveStateSync
    \/ LoadStateAtomic

SpecPersist == Init /\ [][NextPersist]_vars

\* C2: a load that directly follows a save returns the state that was saved.
C2_SaveLoadRoundTrip ==
    [][(last.op = "save" /\ last.err = "nil" /\ last'.op = "load")
        => (loaded'.err = "nil" /\ loaded'.state = <<state>>)]_vars

(***************************************************************************)
(* SpecConc: panel tasks interleave inside UpdateWithVersionCheck          *)
(***************************************************************************)
\* the updates the panel tasks submit: a subset of Updates
ConcUpdates ==
    {u \in Updates :
        \/ u.Type \in {ThemeChanged, ModelChanged}
        \/ u.Type = SessionAdded /\ u.Payload.Session[1].ID = "a"}

\* the version a panel read before it submits: the initial one or the current one
ReadVersions(s) == {1, s.Version.Version}

\* A variant of the conflict branch that keeps the mutex while the resolver runs.
KeepLockForResolver(holder) == holder

\* The conflict branch releases syncMutex before it invokes the resolver.
UnlockForResolver(holder) == NoHolder

\* A variant of the return after the update was applied inside the resolver:
\* the enclosing UpdateWithVersionCheck goes on and applies the update itself
\* at the version it finds.
ApplyAgainAfterResolver(proc, version) ==
    IF Len(proc.stack) > 1
    THEN [proc EXCEPT !.pc = "lock", !.stack = <<Frame("UVC", version, 0)>>, !.err = "nil"]
    ELSE [proc EXCEPT !.pc = "done", !.stack = <<>>, !.err = "nil"]

\* The update was applied: UpdateWithVersionCheck returns nil, and so does
\* every resolver and every UpdateWithVersionCheck that encloses it ("Return
\* early to avoid double application/broadcast").
ReturnNil(proc, version) == [proc EXCEPT !.pc = "done", !.stack = <<>>, !.err = "nil"]

\* a panel task enters UpdateWithVersionCheck(u)
Submit(p, u) ==
    /\ procs[p].pc \in {"idle", "done"}
    /\ submitted < MaxCalls
    /\ submitted' = submitted + 1
    /\ procs' = [procs EXCEPT ![p] = [pc |-> "lock", update |-> u,
                                      stack |-> <<Frame("UVC", u.ExpectedVersion, 0)>>,
                                      err |-> "nil", resolved |-> 0]]
    /\ UNCHANGED <<state, eventHistory, strategy, ctlVars, last, diskVars, busVars, syncMutex>>

\* manager.syncMutex.Lock()
Lock(p) ==
    /\ procs[p].pc = "lock"
    /\ syncMutex = NoHolder
    /\ syncMutex' = p
    /\ procs' = [procs EXCEPT ![p].pc = "check"]
    /\ UNCHANGED <<state, eventHistory, strategy, ctlVars, last, submitted, diskVars, busVars>>

\* Under the mutex: on a version mismatch unlock and invoke the resolver; else
\* apply the payload, stamp the version, broadcast and unlock. A nil return
\* makes every enclosing resolver and UpdateWithVersionCheck frame return
\* success, so the call is done.
Check(p) ==
    /\ procs[p].pc = "check"
    /\ syncMutex = p
    /\ LET frame == Top(procs[p].stack)
           u == [procs[p].update EXCEPT !.ExpectedVersion = frame.expected]
       IN IF state.Version.Version # frame.expected
          THEN /\ syncMutex' = UnlockForResolver(syncMutex)
               /\ procs' = [procs EXCEPT ![p].pc = "resolve",
                                         ![p].stack = Append(@, Frame("RC", 0, 1)),
                                         ![p].resolved = @ + 1]
               /\ UNCHANGED <<state, eventHistory, last>>
          ELSE LET r == ApplyAndBroadcast(state, eventHistory, u) IN
               /\ state' = r.state
               /\ eventHistory' = r.history
               /\ syncMutex' = NoHolder
               /\ procs' = [procs EXCEPT ![p] = ReturnNil(@, r.state.Version.Version)]
               /\ last' = [op |-> "update", update |-> procs[p].update, err |-> "nil"]
    /\ UNCHANGED <<strategy, ctlVars, submitted, diskVars, busVars>>

\* the attempt of ResolveConflict on top of the stack gives up without retrying
GivesUp(frame) ==
    \/ strategy = ManualResolve
    \/ strategy = VersionBased /\ frame.attempt > MaxRetries

\* One attempt of ResolveConflict: manual_resolve returns the conflict; the
\* other strategies read the current version (GetState, a read lock of
\* syncMutex), restamp the update and call UpdateWithVersionCheck again.
Resolve(p) ==
    /\ procs[p].pc = "resolve"
    /\ IF GivesUp(Top(procs[p].stack))
       THEN procs' = [procs EXCEPT ![p].pc = "fail", ![p].stack = Pop(@)]
       ELSE /\ syncMutex = NoHolder
            /\ procs' = [procs EXCEPT ![p].pc = "lock",
                            ![p].stack = Append(@, Frame("UVC", state.Version.Version, 0))]
    /\ UNCHANGED <<state, eventHistory, strategy, ctlVars, last, submitted, diskVars, busVars, syncMutex>>

\* The resolver did not succeed: UpdateWithVersionCheck reads the current
\* version (GetState, a read lock of syncMutex) for its conflict error and
\* returns it, to the panel or to the resolver attempt that called it; that
\* attempt retries under version_based while attempts remain, else fails too.
Fail(p) ==
    /\ procs[p].pc = "fail"
    /\ syncMutex = NoHolder
    /\ LET rest == Pop(procs[p].stack) IN
       IF rest = <<>>
       THEN /\ procs' = [procs EXCEPT ![p].pc = "done", ![p].stack = <<>>,
                                      ![p].err = "conflict"]
            /\ last' = [op |-> "update", update |-> procs[p].update, err |-> "conflict"]
       ELSE /\ IF strategy = VersionBased /\ Top(rest).attempt < MaxRetries
               THEN procs' = [procs EXCEPT ![p].pc = "resolve",
                                 ![p].stack = Append(Pop(rest),
                                                     Frame("RC", 0, Top(rest).attempt + 1))]
               ELSE procs' = [procs EXCEPT ![p].stack = Pop(rest)]
            /\ UNCHANGED last
    /\ UNCHANGED <<state, eventHistory, strategy, ctlVars, submitted, diskVars, busVars, syncMutex>>

TaskStep(p) == Lock(p) \/ Check(p) \/ Resolve(p) \/ Fail(p)

NextConc ==
    \/ \E p \in Panels : \E u \in ConcUpdates : \E v \in ReadVersions(state) :
          Submit(p, [u EXCEPT !.ExpectedVersion = v])
    \/ \E p \in Panels : Lock(p)
    \/ \E p \in Panels : Check(p)
    \/ \E p \in Panels : Resolve(p)
    \/ \E p \in Panels : Fail(p)

SpecConc == Init /\ [][NextConc]_vars

\* Go's mutex hands the lock to a waiting task, and a running task takes its next step.
FairSpecConc == SpecConc /\ \A p \in Panels : WF_vars(TaskStep(p))

\* the final state shows the effect of update u
Reflects(s, u) ==
    CASE u.Type = ThemeChanged -> s.Theme = u.Payload.Theme
      [] u.Type = ModelChanged -> s.Provider = u.Payload.Provider /\ s.Model = u.Payload.Model
      [] u.Type = SessionAdded -> HasSession(s, u.Payload.Session[1].ID)
      [] OTHER -> TRUE

\* C3: under version_based, when every panel has submitted one update at
\* expected version 1 and all calls have returned, every update was accepted,
\* the version rose by exactly one per update, and the state reflects each.
C3_AllAcceptedOneIncrementEach ==
    (/\ strategy = VersionBased
     /\ submitted = Cardinality(Panels)
     /\ \A p \in Panels : procs[p].pc = "done" /\ procs[p].update.ExpectedVersion = 1)
    => (/\ \A p \in Panels : procs[p].err = "nil" /\ Reflects(state, procs[p].update)
        /\ state.Version.Version = 1 + Cardinality(Panels))

\* the next step of task p acquires syncMutex, for writing or for reading
AtMutex(p) ==
    \/ procs[p].pc \in {"lock", "fail"}
    \/ procs[p].pc = "resolve" /\ ~GivesUp(Top(procs[p].stack))

\* C4: a task never holds the coordinator mutex when the resolver is invoked
\* nor when it waits for that mutex, and under every strategy a call that
\* entered the resolver returns.
C4_ResolverCompletes ==
    /\ [](\A p \in Panels : (procs[p].pc = "resolve" \/ AtMutex(p)) => syncMutex # p)
    /\ \A p \in Panels : (procs[p].pc = "resolve") ~> (procs[p].pc = "done")

\* C4 witness: under version_based a call was accepted after the resolver ran
\* twice for it, the second time from inside its own retry.
C4_Witness ==
    \E p \in Panels :
        /\ strategy = VersionBased
        /\ procs[p].pc = "done" /\ procs[p].err = "nil" /\ procs[p].resolved >= 2
        /\ syncMutex = NoHolder

\* the resolver activations on the call stack of task p
ResolverFrames(p) == {i \in 1..Len(procs[p].stack) : procs[p].stack[i].fn = "RC"}

\* C11: while the resolver resolves a conflict for an update it is not invoked
\* again for that update: no call stack holds two resolver activations.
C11_NoResolverReentry ==
    \A p \in Panels : Cardinality(ResolverFrames(p)) <= 1

(***************************************************************************)
(* SpecLoaded: the update path of a daemon that starts from a loaded state *)
(***************************************************************************)
\* the state after the updates of seq were accepted in order, starting from s
RECURSIVE ApplyAll(_, _)
ApplyAll(s, seq) ==
    IF seq = <<>> THEN s
    ELSE ApplyAll(ApplyAndBroadcast(s, <<>>, [Head(seq) EXCEPT
                      !.ExpectedVersion = s.Version.Version]).state, Tail(seq))

\* A state saved by an earlier run: sessions a and b, b selected, one message each.
PopulatedState ==
    ApplyAll(NewSharedApplicationState,
        << Update(SessionAdded, [ZeroPayload EXCEPT !.Session = <<SessionInfo("a", "Alpha", 0)>>], "sessions"),
           Update(SessionAdded, [ZeroPayload EXCEPT !.Session = <<SessionInfo("b", "Beta", 0)>>], "sessions"),
           Update(SessionChanged, [ZeroPayload EXCEPT !.SessionID = "b"], "sessions"),
           Update(MessageAdded, [ZeroPayload EXCEPT !.Message = <<MessageInfo("m1", "a", "hi")>>], "messages"),
           Update(MessageAdded, [ZeroPayload EXCEPT !.Message = <<MessageInfo("m2", "b", "yo")>>], "messages") >>)

\* Initialize: manager.state is the state LoadStateAtomic returned, or a new one.
LoadedStates == {NewSharedApplicationState, PopulatedState}

InitLoaded ==
    /\ state \in LoadedStates
    /\ eventHistory = <<>>
    /\ strategy \in ConflictStrategy
    /\ last = [op |-> "init", update |-> NoUpdate, err |-> "nil"]
    /\ submitted = 0
    /\ disk = EmptyDisk
    /\ loaded = NothingLoaded
    /\ procs = [p \in Panels |-> IdleTask]
    /\ syncMutex = NoHolder
    /\ subscribers = [p \in BusPanels |-> NoSubscriber]
    /\ delivered = NothingDelivered
    /\ busMutex = Unlocked
    /\ busTasks = [t \in BusTasks |-> IdleBusTask]
    /\ saveQueue = <<>>
    /\ autoSaveEnabled = TRUE
    /\ saveTasks = [t \in SaveTasks |-> IdleSaveTask]
    /\ manager = NewManager
    /\ repo = NewRepository
    /\ InitControl

SpecLoaded == InitLoaded /\ [][Next]_vars

\* every field of the state but the version record and the update counter
AppFields(s) == [s EXCEPT !.Version = NewSharedApplicationState.Version, !.UpdateCount = 0]

\* the update of this step repeats the accepted SessionDeleted or
\* MessagesCleared that came right before it
RepeatsLast ==
    /\ UpdateStep
    /\ last.op = "update" /\ last.err = "nil"
    /\ last.update.Type \in {SessionDeleted, MessagesCleared}
    /\ last'.update.Type = last.update.Type
    /\ last'.update.Payload = last.update.Payload

\* C12: a SessionDeleted(X), or a MessagesCleared(S), applied right after the
\* same update was accepted changes no application field, and is accepted when
\* its expected version is current or the strategy resolves conflicts.
C12_SecondApplicationChangesNothing ==
    [][RepeatsLast =>
        /\ AppFields(state') = AppFields(state)
        /\ (last'.update.ExpectedVersion = state.Version.Version \/ strategy # ManualResolve)
              => last'.err = "nil"]_vars

\* C12 witness: the selected session b of the populated state was deleted, and
\* the same SessionDeleted was accepted once more.
C12_Witness ==
    /\ LastAccepted(SessionDeleted)
    /\ Len(eventHistory) = 2
    /\ eventHistory[1].Type = SessionDeleted /\ eventHistory[2].Type = SessionDeleted
    /\ eventHistory[1].Data = last.update.Payload /\ eventHistory[2].Data = last.update.Payload
    /\ Len(state.Sessions) = 1 /\ Len(state.Messages) = 2
    /\ state.CurrentSessionID = ""

\* C13: an accepted MessageAdded whose session is in the list appends the
\* message at the end, raises that session's message_count by one and no
\* other's, and sets current_message to the message, whichever session is
\* selected.
C13_MessageAddedEffect ==
    [][(AcceptedStep /\ last'.update.Type = MessageAdded
            /\ HasSession(state, last'.update.Payload.Message[1].SessionID))
        => LET msg == last'.update.Payload.Message[1] IN
           /\ state'.Messages = Append(state.Messages, msg)
           /\ Len(state'.Sessions) = Len(state.Sessions)
           /\ \A i \in 1..Len(state.Sessions) :
                 state'.Sessions[i] =
                     [state.Sessions[i] EXCEPT !.MessageCount =
                         IF state.Sessions[i].ID = msg.SessionID THEN @ + 1 ELSE @]
           /\ state'.CurrentMessage = <<msg>>
           /\ state'.CurrentSessionID = state.CurrentSessionID]_vars

\* C13 witness: a MessageAdded for a known session that is not the selected
\* one was accepted, and current_message is that message.
C13_Witness ==
    /\ LastAccepted(MessageAdded)
    /\ HasSession(state, last.update.Payload.Message[1].SessionID)
    /\ state.CurrentSessionID # ""
    /\ state.CurrentSessionID # last.update.Payload.Message[1].SessionID
    /\ state.CurrentMessage = <<last.update.Payload.Message[1]>>
    /\ Len(state.Sessions) = 2

\* C14: an accepted UIActionTriggered changes no state field but the version
\* record and the update counter, and a ui_action_triggered event with the
\* update's payload, source and the new version is broadcast.
C14_UIActionOnlyBroadcasts ==
    [][(AcceptedStep /\ last'.update.Type = UIActionTriggered)
        => /\ AppFields(state') = AppFields(state)
           /\ Len(eventHistory') > 0
           /\ LET event == eventHistory'[Len(eventHistory')] IN
              /\ event.Type = "ui_action_triggered"
              /\ event.Data = last'.update.Payload
              /\ event.SourcePanel = last'.update.SourcePanel
              /\ event.Version = state'.Version.Version]_vars

\* C14 witness: a UIActionTriggered was accepted on the populated state and
\* its event is the newest of the history.
C14_Witness ==
    /\ LastAccepted(UIActionTriggered)
    /\ Len(state.Sessions) = 2 /\ Len(state.Messages) = 2
    /\ Len(eventHistory) > 0
    /\ eventHistory[Len(eventHistory)].Type = "ui_action_triggered"
    /\ eventHistory[Len(eventHistory)].Data.Action = "open"

(***************************************************************************)
(* SpecBus: panels subscribe, unsubscribe and receive while updates are    *)
(* accepted and their events broadcast                                     *)
(***************************************************************************)
\* the updates submitted while panels are subscribed: a subset of Updates
BusUpdates ==
    {u \in Updates :
        \/ u.Type = ThemeChanged
        \/ u.Type = SessionAdded
        \/ u.Type = MessageAdded /\ u.Payload.Message[1].ID = "m1"}

\* the subscribers a broadcast that excludes panel exclude sends to
Targets(subs, exclude) == {p \in BusPanels : subs[p].subscribed /\ p # exclude}

\* the newest event of a history
Newest(history) == history[Len(history)]

\* a panel hands a new channel to EventBus.Subscribe
BusSubscribe(p) ==
    /\ submitted < MaxCalls
    /\ submitted' = submitted + 1
    /\ \A q \in Targets(subscribers, p) : CanSend(subscribers[q])
    /\ LET b == SubscribeCall(subscribers, eventHistory, p, p) IN
        /\ subscribers' = b.subscribers
        /\ eventHistory' = b.history
    /\ delivered' = [delivered EXCEPT !.placed[p] = 0]
    /\ last' = [op |-> "subscribe", update |-> [NoUpdate EXCEPT !.SourcePanel = p], err |-> "nil"]
    /\ UNCHANGED <<state, strategy, ctlVars, diskVars, concVars, lockVars>>

\* EventBus.Unsubscribe(p)
BusUnsubscribe(p) ==
    /\ submitted < MaxCalls
    /\ submitted' = submitted + 1
    /\ subscribers[p].subscribed => \A q \in Targets(subscribers, p) : CanSend(subscribers[q])
    /\ LET b == UnsubscribeCall(subscribers, eventHistory, p) IN
        /\ subscribers' = b.subscribers
        /\ eventHistory' = b.history
    /\ last' = [op |-> "unsubscribe", update |-> [NoUpdate EXCEPT !.SourcePanel = p], err |-> "nil"]
    /\ UNCHANGED <<state, strategy, ctlVars, diskVars, concVars, delivered, lockVars>>

\* One call of UpdateWithVersionCheck; the event of an accepted update is
\* broadcast to the subscribers under syncMutex.
BusUpdate(u) ==
    /\ submitted < MaxCalls
    /\ submitted' = submitted + 1
    /\ LET r == UpdateWithVersionCheckCall(state, eventHistory, u, strategy) IN
        /\ state' = r.state
        /\ last' = [op |-> "update", update |-> u, err |-> r.err]
        /\ IF r.err = "nil"
           THEN LET event == Newest(r.history)
                    b == Broadcast(subscribers, eventHistory, event)
                IN /\ \A q \in Targets(subscribers, event.SourcePanel) : CanSend(subscribers[q])
                   /\ subscribers' = b.subscribers
                   /\ eventHistory' = b.history
                   /\ delivered' =
                        [placed |-> [p \in BusPanels |->
                                        IF p \in Targets(subscribers, event.SourcePanel)
                                           /\ HasCapacity(subscribers[p])
                                        THEN event.Version ELSE delivered.placed[p]],
                         accepted |-> delivered.accepted \cup {event.Version}]
           ELSE /\ eventHistory' = r.history
                /\ UNCHANGED <<subscribers, delivered>>
    /\ UNCHANGED <<strategy, ctlVars, diskVars, concVars, lockVars>>

\* the panel takes the oldest event from its channel
Receive(p) ==
    /\ subscribers[p].subscribed
    /\ subscribers[p].chan # <<>>
    /\ subscribers' = [subscribers EXCEPT ![p].chan = Tail(@)]
    /\ UNCHANGED <<state, eventHistory, strategy, ctlVars, last, submitted, diskVars, concVars, delivered, lockVars>>

NextBus ==
    \/ \E p \in BusPanels : BusSubscribe(p)
    \/ \E p \in BusPanels : BusUnsubscribe(p)
    \/ \E u \in BusUpdates : \E v \in ExpectedVersions(state) :
          BusUpdate([u EXCEPT !.ExpectedVersion = v])
    \/ \E p \in BusPanels : Receive(p)

SpecBus == Init /\ [][NextBus]_vars

(***************************************************************************)
(* Properties of the event bus (checked under SpecBus)                     *)
(***************************************************************************)
\* a step in which an update is accepted and its event broadcast
BroadcastStep == UpdateStep /\ last'.op = "update" /\ last'.err = "nil"

\* event is on no position of the channel
NotOn(chan, event) == \A i \in 1..Len(chan) : chan[i] # event

\* C15: Broadcast never puts the event on the channel of the subscriber that is
\* the event's source, and puts it on the channel of every other subscriber
\* whose channel has room.
C15_SourceExcludedOthersServed ==
    [][BroadcastStep =>
        LET event == Newest(eventHistory') IN
        \A p \in BusPanels :
            /\ p = event.SourcePanel => subscribers'[p].chan = subscribers[p].chan
            /\ (p # event.SourcePanel /\ subscribers[p].subscribed /\ HasCapacity(subscribers[p]))
                  => subscribers'[p].chan = Append(subscribers[p].chan, event)]_vars

\* C15 witness: both panels are subscribed, an update of the sessions panel was
\* accepted, its event is on the channel of the messages panel and not on the
\* channel of the sessions panel.
C15_Witness ==
    /\ last.op = "update" /\ last.err = "nil" /\ last.update.SourcePanel = "sessions"
    /\ subscribers["sessions"].subscribed /\ subscribers["messages"].subscribed
    /\ subscribers["messages"].chan = <<Newest(eventHistory)>>
    /\ Newest(eventHistory).SourcePanel = "sessions"
    /\ NotOn(subscribers["sessions"].chan, Newest(eventHistory))

\* C16: a broadcast can always proceed, whatever the channels hold; a full
\* channel keeps its content (the event is dropped for that subscriber), every
\* other subscriber with room gets the event, and the update is accepted.
C16_FullChannelDropsOnly ==
    /\ [](submitted < MaxCalls =>
            \A u \in BusUpdates :
                ENABLED BusUpdate([u EXCEPT !.ExpectedVersion = state.Version.Version]))
    /\ [][BroadcastStep =>
            LET event == Newest(eventHistory') IN
            /\ state'.Version.Version > state.Version.Version
            /\ \A p \in Targets(subscribers, event.SourcePanel) :
                  subscribers'[p].chan = IF HasCapacity(subscribers[p])
                                         THEN Append(subscribers[p].chan, event)
                                         ELSE subscribers[p].chan]_vars

\* C16 witness: an update was accepted while the channel of the sessions panel
\* was full: its event is not on that channel and is on the channel of the
\* messages panel.
C16_Witness ==
    /\ last.op = "update" /\ last.err = "nil" /\ last.update.SourcePanel = "controller"
    /\ subscribers["sessions"].subscribed /\ subscribers["messages"].subscribed
    /\ Len(subscribers["sessions"].chan) = ChanCap
    /\ NotOn(subscribers["sessions"].chan, Newest(eventHistory))
    /\ subscribers["sessions"].chan[1].Type = "panel_connected"
    /\ subscribers["messages"].chan = <<Newest(eventHistory)>>

\* C17: the update events put on a subscriber's channel have strictly
\* increasing versions, and every version between two consecutive ones is the
\* version of an update event that was broadcast meanwhile (and dropped for
\* the subscriber, or sent by it).
C17_IncreasingVersionsExplainedGaps ==
    [][\A p \in BusPanels :
        (delivered.placed[p] # 0 /\ delivered'.placed[p] # 0
            /\ delivered'.placed[p] # delivered.placed[p])
        => /\ delivered'.placed[p] > delivered.placed[p]
           /\ \A v \in (delivered.placed[p] + 1)..(delivered'.placed[p] - 1) :
                 v \in delivered.accepted]_vars

\* C19: Subscribe(p) makes the bus emit one panel_connected event, and
\* Unsubscribe(p) of a subscribed panel one panel_disconnected event, with
\* source "system" and naming p; the event is appended to the history and put
\* on the channel of every other subscriber with room, never on p's.
C19_ConnectionEvents ==
    [][(UpdateStep /\ last'.op \in {"subscribe", "unsubscribe"}
            /\ (last'.op = "unsubscribe" => subscribers[last'.update.SourcePanel].subscribed))
        => /\ Len(eventHistory') > 0
           /\ LET p == last'.update.SourcePanel
                  event == Newest(eventHistory')
              IN
              /\ event.Type = IF last'.op = "subscribe" THEN "panel_connected"
                              ELSE "panel_disconnected"
              /\ event.SourcePanel = "system"
              /\ event.Data.PanelID = p
              /\ eventHistory' = addToHistoryUnsafe(eventHistory, event)
              /\ subscribers'[p].chan = <<>>
              /\ subscribers'[p].subscribed = (last'.op = "subscribe")
              /\ \A q \in BusPanels \ {p} :
                    subscribers'[q].chan =
                        IF subscribers[q].subscribed /\ HasCapacity(subscribers[q])
                        THEN Append(subscribers[q].chan, event)
                        ELSE subscribers[q].chan]_vars

\* C19 witness: the messages panel unsubscribed while the sessions panel was
\* subscribed; panel_disconnected naming it is on the channel of the sessions
\* panel, after panel_connected had been taken from it.
C19_Witness ==
    /\ last.op = "unsubscribe" /\ last.update.SourcePanel = "messages"
    /\ ~subscribers["messages"].subscribed
    /\ subscribers["sessions"].subscribed
    /\ Len(eventHistory) = 2
    /\ eventHistory[1].Type = "panel_connected" /\ eventHistory[1].Data.PanelID = "messages"
    /\ Newest(eventHistory).Type = "panel_disconnected"
    /\ Newest(eventHistory).Data.PanelID = "messages"
    /\ subscribers["sessions"].chan = <<Newest(eventHistory)>>

(***************************************************************************)
(* The event bus step by step: Broadcast and BroadcastToPanel called by    *)
(* concurrent tasks, with EventBus.mutex and one step per channel send     *)
(***************************************************************************)

\* The bus after both panels subscribed and took what was on their channels.
SubscribedBus ==
    LET r1 == SubscribeCall([p \in BusPanels |-> NoSubscriber], <<>>, "sessions", "sessions")
        r2 == SubscribeCall(r1.subscribers, r1.history, "messages", "messages")
    IN [ subscribers |-> [p \in BusPanels |-> [r2.subscribers[p] EXCEPT !.chan = <<>>]],
         history |-> r2.history ]

InitBusLock ==
    /\ state = NewSharedApplicationState
    /\ eventHistory = SubscribedBus.history
    /\ strategy \in ConflictStrategy
    /\ last = [op |-> "init", update |-> NoUpdate, err |-> "nil"]
    /\ submitted = 0
    /\ disk = EmptyDisk
    /\ loaded = NothingLoaded
    /\ procs = [p \in Panels |-> IdleTask]
    /\ syncMutex = NoHolder
    /\ subscribers = SubscribedBus.subscribers
    /\ delivered = NothingDelivered
    /\ busMutex = Unlocked
    /\ busTasks = [t \in BusTasks |-> IdleBusTask]
    /\ saveQueue = <<>>
    /\ autoSaveEnabled = TRUE
    /\ saveTasks = [t \in SaveTasks |-> IdleSaveTask]
    /\ manager = NewManager
    /\ repo = NewRepository
    /\ InitControl

\* A variant of Broadcast's locking that gives the mutex back before the
\* sends: the task is not the writer while it sends.
ReleasedBeforeSend(m, t) == m

\* mutex.Lock() of Broadcast with the deferred Unlock: the task is the writer
\* for the whole of broadcastUnsafe.
HeldAcrossSend(m, t) == [m EXCEPT !.writer = t]

Holds(t) == busMutex.writer = t \/ t \in busMutex.readers

\* a task calls Broadcast(event)
StartBroadcast(t) ==
    /\ submitted < MaxCalls
    /\ busTasks[t].pc = "idle"
    /\ busTasks' = [busTasks EXCEPT ![t] = [pc |-> "lock", event |-> StateSyncEvent(state),
                                            target |-> "", pending |-> {}]]
    /\ submitted' = submitted + 1
    /\ UNCHANGED <<state, eventHistory, strategy, ctlVars, last, diskVars, concVars, subscribers,
                   delivered, busMutex>>

\* a task calls BroadcastToPanel(event, targetPanel)
StartBroadcastToPanel(t, targetPanel) ==
    /\ submitted < MaxCalls
    /\ busTasks[t].pc = "idle"
    /\ busTasks' = [busTasks EXCEPT ![t] = [pc |-> "rlock", event |-> StateSyncEvent(state),
                                            target |-> targetPanel, pending |-> {}]]
    /\ submitted' = submitted + 1
    /\ UNCHANGED <<state, eventHistory, strategy, ctlVars, last, diskVars, concVars, subscribers,
                   delivered, busMutex>>

\* Broadcast: mutex.Lock(), then the start of broadcastUnsafe: the event goes
\* to the history and the loop over the subscribers begins.
BusLock(t) ==
    /\ busTasks[t].pc = "lock"
    /\ busMutex = Unlocked
    /\ busMutex' = HeldAcrossSend(busMutex, t)
    /\ eventHistory' = addToHistoryUnsafe(eventHistory, busTasks[t].event)
    /\ busTasks' = [busTasks EXCEPT ![t].pc = "send",
                                    ![t].pending = Targets(subscribers,
                                                           busTasks[t].event.SourcePanel)]
    /\ UNCHANGED <<state, strategy, ctlVars, last, submitted, diskVars, concVars, subscribers,
                   delivered>>

\* one turn of the loop of broadcastUnsafe: the send to one subscriber
BusSend(t, p) ==
    /\ busTasks[t].pc = "send"
    /\ p \in busTasks[t].pending
    /\ CanSend(subscribers[p])
    /\ subscribers' = [subscribers EXCEPT ![p] = Send(@, busTasks[t].event)]
    /\ busTasks' = [busTasks EXCEPT ![t].pending = @ \ {p}]
    /\ UNCHANGED <<state, eventHistory, strategy, ctlVars, last, submitted, diskVars, concVars,
                   delivered, busMutex>>

\* the deferred mutex.Unlock() of Broadcast
BusUnlock(t) ==
    /\ busTasks[t].pc = "send"
    /\ busTasks[t].pending = {}
    /\ busMutex' = [busMutex EXCEPT !.writer = NoHolder]
    /\ busTasks' = [busTasks EXCEPT ![t] = IdleBusTask]
    /\ UNCHANGED <<state, eventHistory, strategy, ctlVars, last, submitted, diskVars, concVars,
                   subscribers, delivered>>

\* BroadcastToPanel: mutex.RLock()
BusRLock(t) ==
    /\ busTasks[t].pc = "rlock"
    /\ busMutex.writer = NoHolder
    /\ busMutex' = [busMutex EXCEPT !.readers = @ \cup {t}]
    /\ busTasks' = [busTasks EXCEPT ![t].pc = "sendto"]
    /\ UNCHANGED <<state, eventHistory, strategy, ctlVars, last, submitted, diskVars, concVars,
                   subscribers, delivered>>

\* BroadcastToPanel: the send to the target, if it is subscribed
BusSendTo(t) ==
    /\ busTasks[t].pc = "sendto"
    /\ LET p == busTasks[t].target IN
       IF subscribers[p].subscribed
       THEN /\ CanSend(subscribers[p])
            /\ subscribers' = [subscribers EXCEPT ![p] = Send(@, busTasks[t].event)]
       ELSE UNCHANGED subscribers
    /\ busTasks' = [busTasks EXCEPT ![t].pc = "runlock"]
    /\ UNCHANGED <<state, eventHistory, strategy, ctlVars, last, submitted, diskVars, concVars,
                   delivered, busMutex>>

\* the deferred mutex.RUnlock() of BroadcastToPanel
BusRUnlock(t) ==
    /\ busTasks[t].pc = "runlock"
    /\ busMutex' = [busMutex EXCEPT !.readers = @ \ {t}]
    /\ busTasks' = [busTasks EXCEPT ![t] = IdleBusTask]
    /\ UNCHANGED <<state, eventHistory, strategy, ctlVars, last, submitted, diskVars, concVars,
                   subscribers, delivered>>

NextBusLock ==
    \/ \E t \in BusTasks : StartBroadcast(t)
    \/ \E t \in BusTasks : \E p \in BusPanels : StartBroadcastToPanel(t, p)
    \/ \E t \in BusTasks : BusLock(t)
    \/ \E t \in BusTasks : \E p \in BusPanels : BusSend(t, p)
    \/ \E t \in BusTasks : BusUnlock(t)
    \/ \E t \in BusTasks : BusRLock(t)
    \/ \E t \in BusTasks : BusSendTo(t)
    \/ \E t \in BusTasks : BusRUnlock(t)
    \/ \E p \in BusPanels : Receive(p)

SpecBusLock == InitBusLock /\ [][NextBusLock]_vars

\* task t puts (or fails to put) an event on a subscriber's channel
Delivers(t) ==
    /\ busTasks[t].pc \in {"send", "sendto"}
    /\ busTasks'[t] # busTasks[t]
    /\ \E p \in BusPanels : subscribers'[p].EventCount = subscribers[p].EventCount + 1

\* C18 as stated: a task that delivers an event to a subscriber's channel does
\* not hold the event bus mutex while it does so.
C18_DeliveryWithoutMutex ==
    [][\A t \in BusTasks : Delivers(t) => ~Holds(t)]_vars

\* C18 as the code has it: a task that delivers an event to a subscriber's
\* channel holds the event bus mutex while it does so: as the writer in
\* Broadcast, with no other holder, and as a reader in BroadcastToPanel, with
\* no writer; the mutex is given back only after the last send of the call.
C18_DeliveryUnderMutex ==
    [][\A t \in BusTasks :
          /\ Delivers(t) =>
                /\ Holds(t)
                /\ busTasks[t].pc = "send" =>
                      busMutex = [writer |-> t, readers |-> {}]
                /\ busTasks[t].pc = "sendto" =>
                      t \in busMutex.readers /\ busMutex.writer = NoHolder
                /\ busMutex' = busMutex
          /\ (Holds(t) /\ ~Holds(t)') =>
                /\ busTasks[t].pc \in {"send", "runlock"}
                /\ busTasks[t].pending = {}]_vars

\* C18 witness: a Broadcast is in the middle of its loop, one subscriber
\* served and one still to serve, and the task is the writer of the mutex.
C18_Witness ==
    \E t \in BusTasks :
       /\ busTasks[t].pc = "send"
       /\ busMutex.writer = t
       /\ Cardinality(busTasks[t].pending) = 1
       /\ \E p \in BusPanels \ busTasks[t].pending :
             /\ subscribers[p].chan # <<>>
             /\ subscribers[p].chan[Len(subscribers[p].chan)] = busTasks[t].event

(***************************************************************************)
(* The save queue: the typed update methods (applyUpdateWithEvents) called *)
(* by concurrent tasks, UpdateWithVersionCheck called directly, and the    *)
(* save worker                                                             *)
(***************************************************************************)

SaveQueueSize == 1

InitSave ==
    /\ state = NewSharedApplicationState
    /\ eventHistory = <<>>
    /\ strategy \in ConflictStrategy
    /\ last = [op |-> "init", update |-> NoUpdate, err |-> "nil"]
    /\ submitted = 0
    /\ disk = EmptyDisk
    /\ loaded = NothingLoaded
    /\ procs = [p \in Panels |-> IdleTask]
    /\ syncMutex = NoHolder
    /\ subscribers = [p \in BusPanels |-> NoSubscriber]
    /\ delivered = NothingDelivered
    /\ busMutex = Unlocked
    /\ busTasks = [t \in BusTasks |-> IdleBusTask]
    /\ saveQueue = <<>>
    /\ autoSaveEnabled \in BOOLEAN
    /\ saveTasks = [t \in SaveTasks |-> IdleSaveTask]
    /\ manager = NewManager
    /\ repo = NewRepository
    /\ InitControl

SaveUpdates ==
    {u \in Updates :
        \/ u.Type = ThemeChanged
        \/ u.Type = SessionAdded /\ u.Payload.Session[1].ID = "a"}

\* A variant of the enqueue that always appends, whatever the queue holds.
EnqueueAlways(q, clone) == Append(q, clone)

\* select { case manager.saveQueue <- saveRequest{...}: default: }: the
\* request is queued if the queue has room and dropped if it is full.
Enqueue(q, clone) == IF Len(q) < SaveQueueSize THEN Append(q, clone) ELSE q

\* What Clone can return while an update that takes pre to post is being
\* written under syncMutex: Clone holds only the state's own read lock, which
\* the writes of UpdateWithVersionCheck do not take, so each field is read
\* before or after its write.
TornClones(pre, post) ==
    { [f \in DOMAIN pre |-> IF f \in S THEN post[f] ELSE pre[f]] :
        S \in SUBSET {f \in DOMAIN pre : pre[f] # post[f]} }

\* manager.state.Clone() called by task t outside syncMutex
Clones(t) ==
    UNION { IF saveTasks[o].pc = "apply"
            THEN TornClones(state,
                            UpdateWithVersionCheckCall(state, eventHistory,
                                                       saveTasks[o].update, strategy).state)
            ELSE {state} : o \in SaveTasks \ {t} }

\* a typed update method: the update is built with the current version as
\* its expected version and handed to applyUpdateWithEvents
CallUpdate(t, u) ==
    /\ submitted < MaxCalls
    /\ saveTasks[t].pc = "idle"
    /\ saveTasks' = [saveTasks EXCEPT ![t] =
                        [pc |-> "resolve",
                         update |-> [u EXCEPT !.ExpectedVersion = state.Version.Version],
                         post |-> state]]
    /\ submitted' = submitted + 1
    /\ UNCHANGED <<state, eventHistory, strategy, ctlVars, last, disk, loaded, saveQueue,
                   autoSaveEnabled, concVars, busVars, workVars>>

\* the resolver's call of UpdateWithVersionCheck takes syncMutex
BeginUpdate(t) ==
    /\ saveTasks[t].pc = "resolve"
    /\ syncMutex = NoHolder
    /\ syncMutex' = t
    /\ saveTasks' = [saveTasks EXCEPT ![t].pc = "apply"]
    /\ UNCHANGED <<state, eventHistory, strategy, ctlVars, last, submitted, disk, loaded, saveQueue,
                   autoSaveEnabled, procs, busVars, workVars>>

\* UpdateWithVersionCheck writes the state and gives syncMutex back; the
\* resolver returns its result to applyUpdateWithEvents, which returns the
\* error of an update that was not accepted.
CommitUpdate(t) ==
    /\ saveTasks[t].pc = "apply"
    /\ syncMutex = t
    /\ LET r == UpdateWithVersionCheckCall(state, eventHistory, saveTasks[t].update, strategy) IN
       /\ state' = r.state
       /\ eventHistory' = r.history
       /\ IF r.err = "nil"
          THEN /\ saveTasks' = [saveTasks EXCEPT ![t].pc = "queue", ![t].post = r.state]
               /\ UNCHANGED last
          ELSE /\ saveTasks' = [saveTasks EXCEPT ![t] = IdleSaveTask]
               /\ last' = [op |-> "applyUpdateWithEvents", update |-> saveTasks[t].update,
                           err |-> r.err]
    /\ syncMutex' = NoHolder
    /\ UNCHANGED <<strategy, ctlVars, submitted, disk, loaded, saveQueue, autoSaveEnabled, procs,
                   busVars, workVars>>

\* applyUpdateWithEvents after a successful result: the save is queued if
\* auto-save is enabled, and the method returns nil
QueueSave(t) ==
    /\ saveTasks[t].pc = "queue"
    /\ IF autoSaveEnabled
       THEN \E clone \in Clones(t) : saveQueue' = Enqueue(saveQueue, clone)
       ELSE UNCHANGED saveQueue
    /\ saveTasks' = [saveTasks EXCEPT ![t] = IdleSaveTask]
    /\ last' = [op |-> "applyUpdateWithEvents", update |-> saveTasks[t].update, err |-> "nil"]
    /\ UNCHANGED <<state, eventHistory, strategy, ctlVars, submitted, disk, loaded, autoSaveEnabled,
                   concVars, busVars, workVars>>

\* UpdateWithVersionCheck called directly, not through a typed update method
DirectUpdate(u) ==
    /\ syncMutex = NoHolder
    /\ UpdateWithVersionCheck(u)

\* saveWorker: one request taken from the queue and written
SaveWorker ==
    /\ ~manager.workerExited
    /\ saveQueue # <<>>
    /\ disk' = SaveStateAtomicCall(disk, Head(saveQueue))
    /\ saveQueue' = Tail(saveQueue)
    /\ manager' = SavedNow(manager)
    /\ last' = [op |-> "saveWorker", update |-> NoUpdate, err |-> "nil"]
    /\ UNCHANGED <<state, eventHistory, strategy, ctlVars, submitted, loaded, autoSaveEnabled,
                   saveTasks, concVars, busVars, repo>>

NextSave ==
    \/ \E t \in SaveTasks : \E u \in SaveUpdates : CallUpdate(t, u)
    \/ \E t \in SaveTasks : BeginUpdate(t)
    \/ \E t \in SaveTasks : CommitUpdate(t)
    \/ \E t \in SaveTasks : QueueSave(t)
    \/ \E u \in SaveUpdates : DirectUpdate([u EXCEPT !.ExpectedVersion = state.Version.Version])
    \/ SaveWorker

SpecSave == InitSave /\ [][NextSave]_vars

\* task t returns nil from a typed update method
ReturnsSuccess(t) == saveTasks[t].pc = "queue" /\ saveTasks'[t].pc = "idle"

\* an update submitted directly to UpdateWithVersionCheck is accepted
DirectSuccess == UpdateStep /\ saveTasks' = saveTasks /\ last'.err = "nil"

\* C20 as stated: every successful update enqueues a clone of the post-update
\* state onto the save queue if the queue has room and leaves the queue as it
\* is if the queue is full; the update succeeds and the state keeps the change.
C20_EverySuccessEnqueues ==
    [][/\ \A t \in SaveTasks :
             ReturnsSuccess(t) =>
                /\ saveQueue' = IF Len(saveQueue) < SaveQueueSize
                                THEN Append(saveQueue, saveTasks[t].post)
                                ELSE saveQueue
                /\ last'.err = "nil" /\ state' = state
       /\ DirectSuccess =>
             saveQueue' = IF Len(saveQueue) < SaveQueueSize
                          THEN Append(saveQueue, state')
                          ELSE saveQueue]_vars

\* C20 as the code has it: a typed update method that succeeds, with auto-save
\* enabled, enqueues one clone taken after syncMutex was given back if the
\* queue has room: the clone's version is at least the update's, and the
\* clone is the post-update state when no other update was accepted or is
\* being applied meanwhile; if the queue is full nothing is enqueued. With
\* auto-save disabled, and for an update given to UpdateWithVersionCheck
\* directly, the queue is left alone. In every case the update succeeds and
\* the in-memory state keeps the change.
C20_TypedSuccessEnqueuesIfEnabled ==
    [][/\ \A t \in SaveTasks :
             ReturnsSuccess(t) =>
                /\ last'.err = "nil" /\ state' = state
                /\ state.Version.Version >= saveTasks[t].post.Version.Version
                /\ (autoSaveEnabled /\ Len(saveQueue) < SaveQueueSize) =>
                      /\ Len(saveQueue') = Len(saveQueue) + 1
                      /\ SubSeq(saveQueue', 1, Len(saveQueue)) = saveQueue
                      /\ saveQueue'[Len(saveQueue')].Version.Version
                            >= saveTasks[t].post.Version.Version
                      /\ (state = saveTasks[t].post
                            /\ \A o \in SaveTasks : saveTasks[o].pc # "apply") =>
                            saveQueue'[Len(saveQueue')] = saveTasks[t].post
                /\ (autoSaveEnabled /\ Len(saveQueue) >= SaveQueueSize) =>
                      saveQueue' = saveQueue
                /\ ~autoSaveEnabled => saveQueue' = saveQueue
       /\ DirectSuccess => saveQueue' = saveQueue /\ state'.Version.Version > state.Version.Version]_vars

\* C20 witness: with auto-save enabled the queue is full of an older state and
\* a typed update has just returned success: its save was dropped and the
\* in-memory state is ahead of everything queued.
C20_Witness ==
    /\ autoSaveEnabled
    /\ last.op = "applyUpdateWithEvents" /\ last.err = "nil"
    /\ \A t \in SaveTasks : saveTasks[t].pc = "idle"
    /\ Len(saveQueue) = SaveQueueSize
    /\ \A i \in 1..Len(saveQueue) : saveQueue[i].Version.Version < state.Version.Version
    /\ state.Version.Version = last.update.ExpectedVersion + 1

(***************************************************************************)
(* The background savers: saveWorker and autoSaveWorker next to the typed  *)
(* update methods, with every repository save succeeding                   *)
(***************************************************************************)

\* the updates of the typed update methods and of the direct calls
TypedUpdates == {u \in Updates : u.Type = ThemeChanged}

DirectUpdates == {u \in Updates : u.Type = ModelChanged}

\* every caller of this part makes one call
SaverCalls == Cardinality(SaveTasks)

\* time passes: the auto-save interval has gone by since lastSaveTime
IntervalPasses ==
    /\ ~manager.saveDue
    /\ manager' = [manager EXCEPT !.saveDue = TRUE]
    /\ UNCHANGED <<appVars, ctlVars, disk, loaded, saveVars, concVars, busVars, repo>>

\* A variant of the ticker's condition that never finds a save due.
SaveNeverDue(m, s, d) == FALSE

\* autoSaveWorker's condition on a tick:
\* time.Since(manager.lastSaveTime) >= manager.autoSaveInterval
SaveIsDue(m, s, d) == m.saveDue

\* autoSaveWorker on a tick that finds the save due: saveStateSync, whose
\* clone is taken under syncMutex.RLock. The worker runs only with auto-save
\* enabled and until it has seen that ctx is done.
AutoSaveTick ==
    /\ autoSaveEnabled
    /\ ~manager.tickerExited
    /\ SaveIsDue(manager, state, disk)
    /\ syncMutex = NoHolder
    /\ SaveStateSync

NextSaver ==
    \/ \E t \in SaveTasks : \E u \in TypedUpdates : submitted < SaverCalls /\ CallUpdate(t, u)
    \/ \E t \in SaveTasks : BeginUpdate(t)
    \/ \E t \in SaveTasks : CommitUpdate(t)
    \/ \E t \in SaveTasks : QueueSave(t)
    \/ \E u \in DirectUpdates :
          /\ submitted < SaverCalls
          /\ DirectUpdate([u EXCEPT !.ExpectedVersion = state.Version.Version])
    \/ SaveWorker
    \/ IntervalPasses
    \/ AutoSaveTick

SpecSaver == Init /\ [][NextSaver]_vars

\* The callers, the save worker and the ticker keep running, and time passes.
FairSpecSaver ==
    /\ SpecSaver
    /\ \A t \in SaveTasks : WF_vars(BeginUpdate(t) \/ CommitUpdate(t) \/ QueueSave(t))
    /\ WF_vars(SaveWorker)
    /\ WF_vars(IntervalPasses)
    /\ WF_vars(AutoSaveTick)

\* the version of the state in the state file, 0 if there is none
SavedVersion(d) ==
    IF Len(d.state) >= 2 /\ DecodeState(d.state[2]).err = "nil"
    THEN DecodeState(d.state[2]).state[1].Version.Version
    ELSE 0

\* the highest version the updates of this part can reach: each raises it by one
MaxVersion == 1 + SaverCalls

\* C21: after an update is accepted with version v, the state file eventually
\* holds a state of version at least v, whether the update's own save was
\* queued or dropped, as long as the save worker and the auto-save ticker run
\* and saves succeed.
C21_AcceptedEventuallySaved ==
    \A v \in 2..MaxVersion :
        (state.Version.Version = v) ~> (SavedVersion(disk) >= v)

\* C21 witness: two typed updates were accepted; the clone of the first
\* (version 2) went through the queue and the save worker, the save of the
\* second (version 3) was dropped at the full queue, and the ticker's save
\* has put version 3 in the state file.
C21_Witness ==
    /\ submitted = 2
    /\ Len(eventHistory) = 2
    /\ \A i \in 1..2 : eventHistory[i].Type = ThemeChanged
    /\ \A t \in SaveTasks : saveTasks[t].pc = "idle"
    /\ saveQueue = <<>>
    /\ last.op = "save"
    /\ state.Version.Version = 3
    /\ SavedVersion(disk) = 3
    /\ Len(disk.backups[1]) >= 2
    /\ DecodeState(disk.backups[1][2]).state[1].Version.Version = 2
    /\ ~Exists(disk.backups[2])

\* the ticker's save: the save became not due and the queue was not touched
TickSaveStep ==
    /\ manager.saveDue /\ ~manager'.saveDue
    /\ saveQueue' = saveQueue
    /\ disk' # disk

\* C22: the auto-save ticker saves only when the interval has passed since
\* the last successful save and the in-memory state differs from the state
\* that was last persisted.
C22_TickSavesOnlyUnpersistedChange ==
    [][TickSaveStep => (manager.saveDue /\ disk.state # writeStateToFile(state))]_vars

(***************************************************************************)
(* Stop next to the background savers                                      *)
(***************************************************************************)

\* Stop: manager.cancel(). Stop is called here when no update is in progress.
StopCancel ==
    /\ manager.stop = "running"
    /\ \A t \in SaveTasks : saveTasks[t].pc = "idle"
    /\ manager' = [manager EXCEPT !.ctxDone = TRUE, !.stop = "saving"]
    /\ UNCHANGED <<appVars, ctlVars, disk, loaded, saveVars, concVars, busVars, repo>>

\* Stop: saveStateSync, the final save
StopSave ==
    /\ manager.stop = "saving"
    /\ syncMutex = NoHolder
    /\ disk' = SaveStateAtomicCall(disk, state)
    /\ manager' = [SavedNow(manager) EXCEPT !.stop = "closing"]
    /\ last' = [op |-> "save", update |-> NoUpdate, err |-> "nil"]
    /\ UNCHANGED <<state, eventHistory, strategy, ctlVars, submitted, loaded, saveVars, concVars,
                   busVars, repo>>

\* Stop: close(manager.saveQueue) and return; what is in the queue stays
\* receivable
StopClose ==
    /\ manager.stop = "closing"
    /\ manager' = [manager EXCEPT !.queueClosed = TRUE, !.stop = "stopped"]
    /\ UNCHANGED <<appVars, ctlVars, disk, loaded, saveVars, concVars, busVars, repo>>

\* saveWorker returns: its select took ctx.Done(), or the receive from the
\* closed and empty queue gave !ok
SaveWorkerExit ==
    /\ ~manager.workerExited
    /\ manager.ctxDone \/ (manager.queueClosed /\ saveQueue = <<>>)
    /\ manager' = [manager EXCEPT !.workerExited = TRUE]
    /\ UNCHANGED <<appVars, ctlVars, disk, loaded, saveVars, concVars, busVars, repo>>

\* autoSaveWorker returns: auto-save is disabled, or its select took ctx.Done()
TickerExit ==
    /\ ~manager.tickerExited
    /\ manager.ctxDone \/ ~autoSaveEnabled
    /\ manager' = [manager EXCEPT !.tickerExited = TRUE]
    /\ UNCHANGED <<appVars, ctlVars, disk, loaded, saveVars, concVars, busVars, repo>>

NextStop ==
    \/ \E t \in SaveTasks : \E u \in TypedUpdates :
          /\ manager.stop = "running"
          /\ submitted < SaverCalls
          /\ CallUpdate(t, u)
    \/ \E t \in SaveTasks : BeginUpdate(t)
    \/ \E t \in SaveTasks : CommitUpdate(t)
    \/ \E t \in SaveTasks : QueueSave(t)
    \/ \E u \in DirectUpdates :
          /\ manager.stop = "running"
          /\ submitted < SaverCalls
          /\ DirectUpdate([u EXCEPT !.ExpectedVersion = state.Version.Version])
    \/ SaveWorker
    \/ SaveWorkerExit
    \/ IntervalPasses
    \/ AutoSaveTick
    \/ TickerExit
    \/ StopCancel
    \/ StopSave
    \/ StopClose

SpecStop == Init /\ [][NextStop]_vars

\* C23: once Stop has returned, the state file holds the coordinator's final
\* in-memory state: the save worker writes no older queued snapshot after the
\* final save.
C23_FinalStateOnDiskAfterStop ==
    manager.stop = "stopped" => disk.state = writeStateToFile(state)

(***************************************************************************)
(* Saves that fail: the queued save, the auto-save, SaveStateSync and      *)
(* ResetState with a repository whose SaveStateAtomic may return an error  *)
(***************************************************************************)

MaxFailedSaves == 1

\* a copy that broke off after the first document
TruncatedCopy(file) == SubSeq(file, 1, 1)

\* What a SaveStateAtomic that returns an error can leave: nothing changed
\* (lock, temp file, write, sync or close failed), the backups rotated and
\* the copy to .backup not made or broken off (backupExistingFile failed), or
\* the backup made and the state file as it was (the rename failed).
SaveFailures(d) ==
    {d, backupExistingFile(d)}
    \cup (IF Exists(d.state)
          THEN {[d EXCEPT !.backups = rotateBackups(d.backups)],
                [d EXCEPT !.backups =
                    [rotateBackups(d.backups) EXCEPT ![1] = TruncatedCopy(d.state)]]}
          ELSE {})

\* metrics.RecordSave(false, duration)
RecordSaveFailure(m) == [m EXCEPT !.FailedSaves = @ + 1]

\* saveStateSync (from the ticker or SaveStateSync) with a failing save
SaveStateSyncFails ==
    /\ manager.FailedSaves < MaxFailedSaves
    /\ syncMutex = NoHolder
    /\ disk' \in SaveFailures(disk)
    /\ manager' = RecordSaveFailure(manager)
    /\ last' = [op |-> "save", update |-> NoUpdate, err |-> "save_failed"]
    /\ UNCHANGED <<state, eventHistory, strategy, ctlVars, submitted, loaded, saveVars, concVars,
                   busVars, repo>>

\* the ticker's save fails
AutoSaveTickFails ==
    /\ autoSaveEnabled
    /\ ~manager.tickerExited
    /\ SaveIsDue(manager, state, disk)
    /\ SaveStateSyncFails

\* saveWorker with a failing save: the request is consumed, lastSaveTime is
\* left alone and, callback being nil, the error goes nowhere
SaveWorkerFails ==
    /\ ~manager.workerExited
    /\ saveQueue # <<>>
    /\ disk' \in SaveFailures(disk)
    /\ saveQueue' = Tail(saveQueue)
    /\ last' = [op |-> "saveWorker", update |-> NoUpdate, err |-> "save_failed"]
    /\ UNCHANGED <<state, eventHistory, strategy, ctlVars, submitted, loaded, autoSaveEnabled,
                   saveTasks, concVars, busVars, workVars>>

\* ResetState: a fresh state, saved and broadcast as a clone in a state_sync
\* event
ResetState ==
    /\ syncMutex = NoHolder
    /\ state' = NewSharedApplicationState
    /\ disk' = SaveStateAtomicCall(disk, NewSharedApplicationState)
    /\ manager' = SavedNow(manager)
    /\ LET r == Broadcast(subscribers, eventHistory, StateSyncEvent(NewSharedApplicationState)) IN
       /\ subscribers' = r.subscribers
       /\ eventHistory' = r.history
    /\ last' = [op |-> "reset", update |-> NoUpdate, err |-> "nil"]
    /\ UNCHANGED <<strategy, ctlVars, submitted, loaded, saveVars, concVars, delivered, lockVars, repo>>

\* ResetState with a failing save: the state is already replaced, the error
\* is returned and nothing is broadcast
ResetStateFails ==
    /\ manager.FailedSaves < MaxFailedSaves
    /\ syncMutex = NoHolder
    /\ state' = NewSharedApplicationState
    /\ disk' \in SaveFailures(disk)
    /\ manager' = RecordSaveFailure(manager)
    /\ last' = [op |-> "reset", update |-> NoUpdate, err |-> "save_failed"]
    /\ UNCHANGED <<eventHistory, strategy, ctlVars, submitted, loaded, saveVars, concVars, busVars, repo>>

NextSaveFail ==
    \/ \E t \in SaveTasks : \E u \in TypedUpdates : submitted < SaverCalls /\ CallUpdate(t, u)
    \/ \E t \in SaveTasks : BeginUpdate(t)
    \/ \E t \in SaveTasks : CommitUpdate(t)
    \/ \E t \in SaveTasks : QueueSave(t)
    \/ SaveWorker
    \/ SaveWorkerFails
    \/ IntervalPasses
    \/ AutoSaveTick
    \/ AutoSaveTickFails
    \/ ResetState
    \/ ResetStateFails

SpecSaveFail == Init /\ [][NextSaveFail]_vars

\* a save has just failed
FailedSaveStep ==
    /\ last'.err = "save_failed"
    /\ \/ last' # last
       \/ saveQueue' # saveQueue
       \/ manager'.FailedSaves # manager.FailedSaves

\* C24: whenever a repository save fails, be it the queued save, the auto-save
\* or a synchronous save, the failure is counted in the save metrics and the
\* in-memory state is what it was before the save was attempted.
C24_FailedSaveRecordedStateKept ==
    [][FailedSaveStep =>
          /\ manager'.FailedSaves = manager.FailedSaves + 1
          /\ last'.op # "reset" => state' = state]_vars

(***************************************************************************)
(* The states handed to panels: GetState, ForceFullSync and ResetState,    *)
(* with updates that write manager.state in place                          *)
(***************************************************************************)

MaxSnapshots == 2

SnapshotUpdates == {u \in Updates : u.Type \in {ThemeChanged, ModelChanged}}

Snapshot(kind, shared, s) == [kind |-> kind, shared |-> shared, value |-> s]

\* What the holders of the pointer manager.state see once the state it
\* points to is s.
WrittenInPlace(snapshots, s) ==
    [i \in 1..Len(snapshots) |->
        IF snapshots[i].shared THEN [snapshots[i] EXCEPT !.value = s] ELSE snapshots[i]]

\* manager.state = types.NewSharedApplicationState(): the holders of the old
\* pointer keep the old state, which nothing writes any more.
Replaced(snapshots) ==
    [i \in 1..Len(snapshots) |-> [snapshots[i] EXCEPT !.shared = FALSE]]

\* GetState: a clone taken under syncMutex.RLock
GetState ==
    /\ Len(manager.snapshots) < MaxSnapshots
    /\ syncMutex = NoHolder
    /\ manager' = [manager EXCEPT !.snapshots = Append(@, Snapshot("GetState", FALSE, state))]
    /\ last' = [op |-> "GetState", update |-> NoUpdate, err |-> "nil"]
    /\ UNCHANGED <<state, eventHistory, strategy, ctlVars, submitted, disk, loaded, saveVars, concVars,
                   busVars, repo>>

\* ForceFullSync: saveStateSync, then a state_sync event whose Data.State is
\* manager.state, broadcast
ForceFullSync ==
    /\ Len(manager.snapshots) < MaxSnapshots
    /\ syncMutex = NoHolder
    /\ disk' = SaveStateAtomicCall(disk, state)
    /\ manager' = [SavedNow(manager) EXCEPT
                      !.snapshots = Append(@, Snapshot("full_sync", TRUE, state))]
    /\ LET r == Broadcast(subscribers, eventHistory, StateSyncEvent(state)) IN
       /\ subscribers' = r.subscribers
       /\ eventHistory' = r.history
    /\ last' = [op |-> "ForceFullSync", update |-> NoUpdate, err |-> "nil"]
    /\ UNCHANGED <<state, strategy, ctlVars, submitted, loaded, saveVars, concVars, delivered, lockVars,
                   repo>>

\* ResetState, its event handed to a panel: Data.State is a clone
ResetAndHandOut ==
    /\ Len(manager.snapshots) < MaxSnapshots
    /\ syncMutex = NoHolder
    /\ state' = NewSharedApplicationState
    /\ disk' = SaveStateAtomicCall(disk, NewSharedApplicationState)
    /\ manager' = [SavedNow(manager) EXCEPT
                      !.snapshots = Append(Replaced(@),
                                           Snapshot("reset", FALSE, NewSharedApplicationState))]
    /\ LET r == Broadcast(subscribers, eventHistory, StateSyncEvent(NewSharedApplicationState)) IN
       /\ subscribers' = r.subscribers
       /\ eventHistory' = r.history
    /\ last' = [op |-> "reset", update |-> NoUpdate, err |-> "nil"]
    /\ UNCHANGED <<strategy, ctlVars, submitted, loaded, saveVars, concVars, delivered, lockVars, repo>>

\* UpdateWithVersionCheck: the fields of *manager.state are written in place
UpdateInPlace(u) ==
    /\ submitted < MaxCalls
    /\ syncMutex = NoHolder
    /\ submitted' = submitted + 1
    /\ LET r == UpdateWithVersionCheckCall(state, eventHistory, u, strategy) IN
        /\ state' = r.state
        /\ eventHistory' = r.history
        /\ manager' = [manager EXCEPT !.snapshots = WrittenInPlace(@, r.state)]
        /\ last' = [op |-> "update", update |-> u, err |-> r.err]
    /\ UNCHANGED <<strategy, ctlVars, disk, loaded, saveVars, concVars, busVars, repo>>

\* a panel writes the theme of the state it was handed
PanelWrites(i) ==
    /\ i \in 1..Len(manager.snapshots)
    /\ manager.snapshots[i].value.Theme # "panel"
    /\ LET s == [manager.snapshots[i].value EXCEPT !.Theme = "panel"] IN
       IF manager.snapshots[i].shared
       THEN /\ state' = s
            /\ manager' = [manager EXCEPT !.snapshots = WrittenInPlace(@, s)]
       ELSE /\ state' = state
            /\ manager' = [manager EXCEPT !.snapshots[i].value = s]
    /\ last' = [op |-> "panel_write", update |-> NoUpdate, err |-> "nil"]
    /\ UNCHANGED <<eventHistory, strategy, ctlVars, submitted, disk, loaded, saveVars, concVars, busVars,
                   repo>>

NextSnap ==
    \/ GetState
    \/ ForceFullSync
    \/ ResetAndHandOut
    \/ \E u \in SnapshotUpdates :
          UpdateInPlace([u EXCEPT !.ExpectedVersion = state.Version.Version])
    \/ \E i \in 1..MaxSnapshots : PanelWrites(i)

SpecSnap == Init /\ [][NextSnap]_vars

\* C25: a state handed to a panel, by GetState or in a state_sync event of a
\* full sync or a reset, is detached: an accepted update changes no snapshot
\* handed out before, and a panel's write to its snapshot does not change the
\* coordinator's state.
C25_SnapshotsDetached ==
    [][/\ (UpdateStep /\ last'.err = "nil") =>
             \A i \in 1..Len(manager.snapshots) :
                manager'.snapshots[i].value = manager.snapshots[i].value
       /\ (last'.op = "panel_write" /\ manager'.snapshots # manager.snapshots) =>
             state' = state]_vars

(***************************************************************************)
(* The FileManager step by step: acquireFileLock, SaveStateAtomic,         *)
(* LoadStateAtomic and releaseFileLock called by goroutines of two         *)
(* processes on one state path, with I/O errors, crashes and passing time  *)
(***************************************************************************)

SavePayloads == {NewSharedApplicationState, PopulatedState}

RepoUnchanged == UNCHANGED <<appVars, ctlVars, loaded, saveVars, manager, concVars, busVars>>

\* between a successful acquireFileLock and releaseFileLock
InCritical(t) == repo.tasks[t].pc \in {"write", "rotate", "copy", "rename", "read", "release"}

\* one call for each goroutine
RepoCalls == Cardinality(RepoTasks)

\* a goroutine calls SaveStateAtomic(s) or LoadStateAtomic()
RepoCall(t, op, s) ==
    /\ submitted < RepoCalls
    /\ repo.tasks[t].pc = "idle"
    /\ repo' = [repo EXCEPT !.tasks[t] = [pc |-> "acquire", op |-> op, payload |-> s,
                                          temp |-> <<>>, err |-> "nil"]]
    /\ submitted' = submitted + 1
    /\ UNCHANGED <<state, eventHistory, strategy, ctlVars, last, disk, loaded, saveVars, manager,
                   concVars, busVars>>

\* acquireFileLock: lockMutex taken with fm.fileLock nil, at once or after
\* the wait for the holder in the same process
TakeLockMutex(t) ==
    /\ repo.tasks[t].pc = "acquire"
    /\ repo.lockMutex[Proc(t)] = NoHolder
    /\ repo.fileLock[Proc(t)] = NoHolder
    /\ repo' = [repo EXCEPT !.lockMutex[Proc(t)] = t, !.tasks[t].pc = "create"]
    /\ disk' = disk
    /\ RepoUnchanged

\* acquireFileLock: the wait for the holder in the same process passes its
\* deadline: "lock already held"
HeldTimeout(t) ==
    /\ repo.tasks[t].pc = "acquire"
    /\ repo.fileLock[Proc(t)] # NoHolder
    /\ repo' = [repo EXCEPT !.tasks[t] = [IdleRepoTask EXCEPT !.err = "lock_held"]]
    /\ disk' = disk
    /\ RepoUnchanged

\* acquireFileLock: os.OpenFile(lockPath, O_CREATE|O_EXCL) succeeds
CreateLockFile(t) ==
    /\ repo.tasks[t].pc = "create"
    /\ repo.lockFile = NoFile
    /\ repo' = [repo EXCEPT !.lockFile = [creator |-> t, old |-> FALSE],
                            !.tasks[t].pc = "flock"]
    /\ disk' = disk
    /\ RepoUnchanged

\* A variant of the stale test that also wants the creator of the lock file
\* to be outside its critical section.
StaleAndUnheld(r) ==
    /\ r.lockFile.old
    /\ r.tasks[r.lockFile.creator].pc \notin
          {"flock", "write", "rotate", "copy", "rename", "read", "release"}

\* handleStaleLock's test: time.Since(stat.ModTime()) > fm.lockTimeout
IsStale(r) == r.lockFile.old

\* acquireFileLock: the lock file exists and handleStaleLock removes it
RemoveStaleLock(t) ==
    /\ repo.tasks[t].pc = "create"
    /\ repo.lockFile # NoFile
    /\ IsStale(repo)
    /\ repo' = [repo EXCEPT !.lockFile = NoFile]
    /\ disk' = disk
    /\ RepoUnchanged

\* acquireFileLock: the lock file exists, is not stale, and lockTimeout has
\* passed since the start: LockTimeoutError
LockTimeout(t) ==
    /\ repo.tasks[t].pc = "create"
    /\ repo.lockFile # NoFile
    /\ ~IsStale(repo)
    /\ repo' = [repo EXCEPT !.lockMutex[Proc(t)] = NoHolder,
                            !.tasks[t] = [IdleRepoTask EXCEPT !.err = "lock_timeout"]]
    /\ disk' = disk
    /\ RepoUnchanged

\* acquireFileLock: the pid written, flock on the file just created,
\* fm.fileLock set, lockMutex given back; the operation starts
FlockFile(t) ==
    /\ repo.tasks[t].pc = "flock"
    /\ repo' = [repo EXCEPT !.fileLock[Proc(t)] = t,
                            !.lockMutex[Proc(t)] = NoHolder,
                            !.tasks[t].pc = IF repo.tasks[t].op = "save" THEN "write" ELSE "read"]
    /\ disk' = disk
    /\ RepoUnchanged

\* SaveStateAtomic: the temp file created, written, synced and closed
WriteTemp(t) ==
    /\ repo.tasks[t].pc = "write"
    /\ repo' = [repo EXCEPT !.tasks[t].temp = writeStateToFile(repo.tasks[t].payload),
                            !.tasks[t].pc = "rotate"]
    /\ disk' = disk
    /\ RepoUnchanged

\* backupExistingFile: nothing to back up, or rotateBackups
RotateBackups(t) ==
    /\ repo.tasks[t].pc = "rotate"
    /\ IF Exists(disk.state)
       THEN /\ disk' = [disk EXCEPT !.backups = rotateBackups(disk.backups)]
            /\ repo' = [repo EXCEPT !.tasks[t].pc = "copy"]
       ELSE /\ disk' = disk
            /\ repo' = [repo EXCEPT !.tasks[t].pc = "rename"]
    /\ RepoUnchanged

\* A variant of the backup that moves the state file to .backup.
MoveToBackup(d) == [d EXCEPT !.backups[1] = d.state, !.state = <<>>]

\* backupExistingFile: copyFile(statePath, backupPath)
CopyToBackup(d) == [d EXCEPT !.backups[1] = d.state]

CopyBackup(t) ==
    /\ repo.tasks[t].pc = "copy"
    /\ disk' = CopyToBackup(disk)
    /\ repo' = [repo EXCEPT !.tasks[t].pc = "rename"]
    /\ RepoUnchanged

\* SaveStateAtomic: os.Rename(tempPath, statePath); the save returns nil
\* after releaseFileLock
RenameTemp(t) ==
    /\ repo.tasks[t].pc = "rename"
    /\ disk' = [disk EXCEPT !.state = repo.tasks[t].temp]
    /\ repo' = [repo EXCEPT !.tasks[t].temp = <<>>, !.tasks[t].pc = "release"]
    /\ RepoUnchanged

\* What a step of SaveStateAtomic that breaks off leaves on the disk: a copy
\* to .backup may be broken off; the temp file is not at the state path.
BrokenOff(d, pc) ==
    IF pc = "copy" THEN {d, [d EXCEPT !.backups[1] = TruncatedCopy(d.state)]} ELSE {d}

\* SaveStateAtomic: a step returns an error: the temp file is removed and
\* the lock released by the deferred calls
SaveStepFails(t) ==
    /\ repo.tasks[t].pc \in {"write", "rotate", "copy", "rename"}
    /\ disk' \in BrokenOff(disk, repo.tasks[t].pc)
    /\ repo' = [repo EXCEPT !.tasks[t].temp = <<>>, !.tasks[t].err = "save_failed",
                            !.tasks[t].pc = "release"]
    /\ RepoUnchanged

\* LoadStateAtomic between the lock and its release
ReadState(t) ==
    /\ repo.tasks[t].pc = "read"
    /\ loaded' = LoadStateAtomicCall(disk)
    /\ repo' = [repo EXCEPT !.tasks[t].err = loaded'.err, !.tasks[t].pc = "release"]
    /\ UNCHANGED <<appVars, ctlVars, disk, saveVars, manager, concVars, busVars>>

\* releaseFileLock: the lock file closed, whatever is at lockPath removed,
\* fm.fileLock = nil; the call returns
ReleaseFileLock(t) ==
    /\ repo.tasks[t].pc = "release"
    /\ repo.lockMutex[Proc(t)] = NoHolder
    /\ repo' = [repo EXCEPT !.lockFile = NoFile,
                            !.fileLock[Proc(t)] = NoHolder,
                            !.tasks[t] = [IdleRepoTask EXCEPT !.err = repo.tasks[t].err]]
    /\ disk' = disk
    /\ RepoUnchanged

\* the other process dies: its goroutine stops where it is, a copy in
\* progress is broken off, its lock file stays
Crash ==
    /\ repo.tasks["Q.1"].pc \notin {"idle", "dead"}
    /\ disk' \in BrokenOff(disk, repo.tasks["Q.1"].pc)
    /\ repo' = [repo EXCEPT !.tasks["Q.1"].pc = "dead"]
    /\ RepoUnchanged

\* time passes: the lock file is now older than lockTimeout
LockAges ==
    /\ repo.lockFile # NoFile
    /\ ~repo.lockFile.old
    /\ repo' = [repo EXCEPT !.lockFile.old = TRUE]
    /\ disk' = disk
    /\ RepoUnchanged

NextRepo ==
    \/ \E t \in RepoTasks : \E s \in SavePayloads : RepoCall(t, "save", s)
    \/ \E t \in RepoTasks : RepoCall(t, "load", NewSharedApplicationState)
    \/ \E t \in RepoTasks : TakeLockMutex(t)
    \/ \E t \in RepoTasks : HeldTimeout(t)
    \/ \E t \in RepoTasks : CreateLockFile(t)
    \/ \E t \in RepoTasks : RemoveStaleLock(t)
    \/ \E t \in RepoTasks : LockTimeout(t)
    \/ \E t \in RepoTasks : FlockFile(t)
    \/ \E t \in RepoTasks : WriteTemp(t)
    \/ \E t \in RepoTasks : RotateBackups(t)
    \/ \E t \in RepoTasks : CopyBackup(t)
    \/ \E t \in RepoTasks : RenameTemp(t)
    \/ \E t \in RepoTasks : SaveStepFails(t)
    \/ \E t \in RepoTasks : ReadState(t)
    \/ \E t \in RepoTasks : ReleaseFileLock(t)
    \/ Crash
    \/ LockAges

SpecRepo == Init /\ [][NextRepo]_vars

\* a complete document: what writeStateToFile writes for a state saved
CompleteDocuments == {writeStateToFile(s) : s \in SavePayloads}

\* a step in which the rename of goroutine t's save puts its document at the
\* state path
RenamedBy(t) ==
    /\ repo.tasks[t].pc = "rename"
    /\ repo'.tasks[t].pc = "release"
    /\ repo'.tasks[t].err = "nil"
    /\ disk'.state = writeStateToFile(repo.tasks[t].payload)

\* C26: at every step of a save, also one that fails or is cut by a crash,
\* the state file is absent or a complete document; it changes only in the
\* rename of a save, from the previous document to the complete new one, and
\* a save that ends in an error has not changed it.
C26_StateFileNeverPartial ==
    /\ [](disk.state = <<>> \/ disk.state \in CompleteDocuments)
    /\ [][disk'.state # disk.state => \E t \in RepoTasks : RenamedBy(t)]_vars
    /\ [][\A t \in RepoTasks :
            (\/ repo.tasks[t].err = "nil" /\ repo'.tasks[t].err = "save_failed"
             \/ repo.tasks[t].pc # "dead" /\ repo'.tasks[t].pc = "dead")
                => disk'.state = disk.state]_vars

\* C26 witness: a save that had copied the previous document to .backup
\* has failed and is about to return its error, and the state file still
\* holds the previous document, not the one the save was to write.
C26_Witness ==
    \E t \in RepoTasks :
        /\ repo.tasks[t].pc = "release"
        /\ repo.tasks[t].err = "save_failed"
        /\ disk.state \in CompleteDocuments
        /\ disk.backups[1] = disk.state
        /\ disk.state # writeStateToFile(repo.tasks[t].payload)

\* C27: no two goroutines, of one process or of two processes on the same
\* state path, are at the same time between a successful acquireFileLock
\* and releaseFileLock.
C27_OneHolderAtATime == Cardinality({t \in RepoTasks : InCritical(t)}) <= 1

\* a step of handleStaleLock that removes the lock file
StaleRemoval ==
    /\ repo.lockFile # NoFile
    /\ repo'.lockFile = NoFile
    /\ repo'.tasks = repo.tasks

\* C28: a lock file is removed as stale only when it is older than the lock
\* timeout and no live goroutine holds it: the lock file of a save or load
\* in progress is never removed by another acquirer.
C28_OnlyUnheldStaleLocksRemoved == [][StaleRemoval => StaleAndUnheld(repo)]_vars

(***************************************************************************)
(* Start-up on the files an earlier run left: Initialize, LoadStateAtomic   *)
(* and loadFromBackup with damaged state files and backups                  *)
(***************************************************************************)

\* manager.state before Initialize has set it
NoState == [NewSharedApplicationState EXCEPT !.Version = [Version |-> 0, Source |-> ""]]

\* a state that decodes and fails validateState: its current session is not
\* among its sessions
DanglingSelection == [NewSharedApplicationState EXCEPT !.CurrentSessionID = "a"]

\* a metadata header without a version
BlankHeader == [version |-> JSONString(""), members |-> <<>>]

\* What may be found at the state path: nothing, a file as written, a file
\* cut after its header, a file without the header, a header without a
\* version, a state that fails validation.
FoundStateFiles ==
    { <<>>,
      writeStateToFile(PopulatedState),
      TruncatedCopy(writeStateToFile(PopulatedState)),
      <<EncodeState(PopulatedState)>>,
      <<BlankHeader, EncodeState(PopulatedState)>>,
      writeStateToFile(DanglingSelection) }

\* What may be found at a backup path
FoundBackups ==
    { <<>>,
      writeStateToFile(PopulatedState),
      writeStateToFile(NewSharedApplicationState),
      TruncatedCopy(writeStateToFile(PopulatedState)),
      writeStateToFile(DanglingSelection) }

FoundDisks ==
    [state : FoundStateFiles, backups : [1..(BackupRotation + 1) -> FoundBackups]]

InitRecover ==
    /\ state = NoState
    /\ eventHistory = <<>>
    /\ strategy = LastWriteWins
    /\ last = [op |-> "init", update |-> NoUpdate, err |-> "nil"]
    /\ submitted = 0
    /\ disk \in FoundDisks
    /\ loaded = NothingLoaded
    /\ procs = [p \in Panels |-> IdleTask]
    /\ syncMutex = NoHolder
    /\ subscribers = [p \in BusPanels |-> NoSubscriber]
    /\ delivered = NothingDelivered
    /\ busMutex = Unlocked
    /\ busTasks = [t \in BusTasks |-> IdleBusTask]
    /\ saveQueue = <<>>
    /\ autoSaveEnabled = TRUE
    /\ saveTasks = [t \in SaveTasks |-> IdleSaveTask]
    /\ manager = NewManager
    /\ repo = NewRepository
    /\ InitControl

\* A variant of Initialize that returns the error of the initial save.
ReturnSaveError(err) == err

\* Initialize: the error of the initial save is logged; Initialize returns nil
LogSaveError(err) == "nil"

\* Initialize: the state loaded is taken, or a new state is made and saved
Initialize ==
    /\ last.op = "init"
    /\ loaded' = LoadStateAtomicCall(disk)
    /\ IF loaded'.err = "nil"
       THEN /\ state' = loaded'.state[1]
            /\ UNCHANGED <<disk, manager>>
       ELSE /\ state' = NewSharedApplicationState
            /\ disk' = SaveStateAtomicCall(disk, NewSharedApplicationState)
            /\ manager' = SavedNow(manager)
    /\ last' = [op |-> "initialize", update |-> NoUpdate, err |-> "nil"]
    /\ UNCHANGED <<eventHistory, strategy, ctlVars, submitted, saveVars, repo, concVars, busVars>>

\* Initialize: the load fails and the save of the new state fails too
InitializeSaveFails ==
    /\ last.op = "init"
    /\ loaded' = LoadStateAtomicCall(disk)
    /\ loaded'.err # "nil"
    /\ state' = NewSharedApplicationState
    /\ disk' \in SaveFailures(disk)
    /\ manager' = RecordSaveFailure(manager)
    /\ last' = [op |-> "initialize", update |-> NoUpdate, err |-> LogSaveError("save_failed")]
    /\ UNCHANGED <<eventHistory, strategy, ctlVars, submitted, saveVars, repo, concVars, busVars>>

\* Initialize: repository.Initialize cannot make its directories
InitializeRepositoryFails ==
    /\ last.op = "init"
    /\ last' = [op |-> "initialize", update |-> NoUpdate, err |-> "mkdir_failed"]
    /\ UNCHANGED <<state, eventHistory, strategy, ctlVars, submitted, diskVars, concVars, busVars>>

Initialized == last.op # "init" /\ ~(last.op = "initialize" /\ last.err # "nil")

NextRecover ==
    \/ Initialize
    \/ InitializeSaveFails
    \/ InitializeRepositoryFails
    \/ Initialized /\ \E u \in TypedUpdates :
          UpdateWithVersionCheck([u EXCEPT !.ExpectedVersion = state.Version.Version])
    \/ Initialized /\ SaveStateSync
    \/ Initialized /\ LoadStateAtomic

SpecRecover == InitRecover /\ [][NextRecover]_vars

\* the state file is there and fails the header verification, the decoding
\* or the validation
PrimaryFails(d) ==
    /\ Exists(d.state)
    /\ \/ verifyFileIntegrity(d.state) # "nil"
       \/ DecodeState(d.state[1]).err # "nil"
       \/ ~validateState(DecodeState(d.state[1]).state[1])

\* a backup that decodes and validates
Recoverable(file) ==
    /\ Len(file) >= 2
    /\ DecodeState(file[2]).err = "nil"
    /\ validateState(DecodeState(file[2]).state[1])

RecoverableBackups(d) == {i \in 1..(BackupRotation + 1) : Recoverable(d.backups[i])}

InitializeStep == last.op = "init" /\ last'.op = "initialize"

\* a step of LoadStateAtomic, called by itself or by Initialize
LoadStep ==
    \/ last'.op = "load" /\ last' # last
    \/ InitializeStep /\ loaded'.err # "none"

\* C29: when the state file fails verification, decoding or validation, a
\* load returns the state of the first backup in the order .backup,
\* .backup.1, ... that decodes and validates, and an error only when none
\* does.
C29_FallsBackNewestFirst ==
    [][(LoadStep /\ PrimaryFails(disk))
        => IF RecoverableBackups(disk) = {}
           THEN loaded'.err # "nil"
           ELSE /\ loaded'.err = "nil"
                /\ loaded'.state =
                      DecodeState(disk.backups[Min(RecoverableBackups(disk))][2]).state]_vars

\* C29 witness: a load found a state file that fails the header
\* verification and a .backup that does not decode, and returned the state
\* in .backup.1.
C29_Witness ==
    /\ last.op = "load"
    /\ loaded.err = "nil"
    /\ Exists(disk.state) /\ verifyFileIntegrity(disk.state) # "nil"
    /\ Exists(disk.backups[1]) /\ ~Recoverable(disk.backups[1])
    /\ Recoverable(disk.backups[2])
    /\ loaded.state = DecodeState(disk.backups[2][2]).state

\* C30: when the load of Initialize fails, no backup being recoverable, the
\* coordinator starts from a new state (version 1, no sessions, no messages,
\* no current session) and Initialize returns nil, also when the save of
\* that state fails.
C30_FreshStateWhenNothingLoads ==
    [][(InitializeStep /\ loaded'.err \notin {"nil", "none"})
        => /\ last'.err = "nil"
           /\ state' = NewSharedApplicationState
           /\ state'.Version.Version = 1
           /\ state'.Sessions = <<>> /\ state'.Messages = <<>>
           /\ state'.CurrentSessionID = ""]_vars

\* C30 witness: Initialize has returned nil with the new state after a load
\* that found damaged files only and a save that failed.
C30_Witness ==
    /\ last.op = "initialize"
    /\ last.err = "nil"
    /\ loaded.err = "backup_not_found"
    /\ manager.FailedSaves = 1
    /\ state = NewSharedApplicationState

(***************************************************************************)
(* UpdateSession: the SessionUpdated update (checked under Spec)           *)
(***************************************************************************)

\* the session as a SessionUpdated payload says it should be
WithTitleAndFlag(session, payload) ==
    [session EXCEPT !.Title = payload.Title, !.IsActive = payload.IsActive]

\* C35: an accepted SessionUpdated{session_id, title, is_active} sets the
\* title and the active flag of the session with that id and leaves every
\* other session as it was.
C35_SessionUpdatedSetsTitleAndFlag ==
    [][(AcceptedStep /\ last'.update.Type = SessionUpdated)
        => /\ Len(state'.Sessions) = Len(state.Sessions)
           /\ \A i \in 1..Len(state.Sessions) :
                 state'.Sessions[i] =
                    IF state.Sessions[i].ID = last'.update.Payload.SessionID
                    THEN WithTitleAndFlag(state.Sessions[i], last'.update.Payload)
                    ELSE state.Sessions[i]]_vars

(***************************************************************************)
(* The order of the saves (checked under SpecSaver)                        *)
(***************************************************************************)

\* C38: without a reset the version of the state in the state file never goes
\* down from one completed save to the next: a queued snapshot written by
\* saveWorker is never older than a state an auto-save already wrote.
C38_SavedVersionNeverDecreases ==
    [][SavedVersion(disk') >= SavedVersion(disk)]_vars

(***************************************************************************)
(* Stop called while updates are in progress or still arrive               *)
(***************************************************************************)

\* Stop: manager.cancel(), called while a typed update method is under way;
\* nothing keeps Stop and the update methods apart
StopCancelDuringUpdate ==
    /\ manager.stop = "running"
    /\ \E t \in SaveTasks : saveTasks[t].pc # "idle"
    /\ manager' = [manager EXCEPT !.ctxDone = TRUE, !.stop = "saving"]
    /\ UNCHANGED <<appVars, ctlVars, disk, loaded, saveVars, concVars, busVars, repo>>

\* applyUpdateWithEvents: the select sends on the queue that is still open
QueueSaveOpen(t) ==
    /\ ~manager.queueClosed
    /\ QueueSave(t)

\* applyUpdateWithEvents: the select evaluates its send on the queue Stop
\* has closed: the runtime panics with "send on closed channel", default
\* case or not
SendOnClosedQueue(t) ==
    /\ saveTasks[t].pc = "queue"
    /\ autoSaveEnabled
    /\ manager.queueClosed
    /\ saveTasks' = [saveTasks EXCEPT ![t].pc = "panic"]
    /\ last' = [op |-> "applyUpdateWithEvents", update |-> saveTasks[t].update,
                err |-> "send on closed channel"]
    /\ UNCHANGED <<state, eventHistory, strategy, ctlVars, submitted, disk, loaded, saveQueue,
                   autoSaveEnabled, concVars, busVars, workVars>>

NextStopRace ==
    \/ \E t \in SaveTasks : \E u \in TypedUpdates :
          /\ submitted < SaverCalls
          /\ CallUpdate(t, u)
    \/ \E t \in SaveTasks : BeginUpdate(t)
    \/ \E t \in SaveTasks : CommitUpdate(t)
    \/ \E t \in SaveTasks : QueueSaveOpen(t)
    \/ \E t \in SaveTasks : SendOnClosedQueue(t)
    \/ SaveWorker
    \/ SaveWorkerExit
    \/ StopCancel
    \/ StopCancelDuringUpdate
    \/ StopSave
    \/ StopClose

SpecStopRace == Init /\ [][NextStopRace]_vars

\* C39: no update sends on the save queue after Stop has closed it, whether
\* the update runs concurrently with Stop or is submitted after Stop has
\* returned.
C39_NoSendOnClosedQueue ==
    \A t \in SaveTasks :
        ~(saveTasks[t].pc = "panic" /\ manager.queueClosed)

(***************************************************************************)
(* One application for each submission (checked under SpecConc)            *)
(***************************************************************************)

\* a step in which panel task p applies its update and its call returns nil
AppliesAndReturns(p) ==
    /\ procs[p].pc = "check"
    /\ procs'[p].pc = "done" /\ procs'[p].err = "nil" /\ procs'[p].stack = <<>>
    /\ \A q \in Panels \ {p} : procs'[q] = procs[q]
    /\ state' = StampVersion(ApplyPayload(state, procs[p].update), procs[p].update)
    /\ eventHistory' = addToHistoryUnsafe(eventHistory,
                          CreateEventFromUpdate(procs[p].update, state'.Version.Version))

\* C37: a submission is applied at most once, also when a version conflict
\* goes to the resolver and the resolver retries through
\* UpdateWithVersionCheck, nested or not: the state and the event history
\* change only in a step that applies the update of one task once and ends
\* that task's call.
C37_AppliedAtMostOnce ==
    [][(state' # state \/ eventHistory' # eventHistory)
        => \E p \in Panels : AppliesAndReturns(p)]_vars

\* C37 witness: a call that went through the resolver twice, the second time
\* from inside its own retry, has returned nil, and its update is the last
\* one applied.
C37_Witness ==
    \E p \in Panels :
        /\ procs[p].pc = "done" /\ procs[p].err = "nil" /\ procs[p].resolved >= 2
        /\ last.op = "update" /\ last.update = procs[p].update
        /\ state.Version.Source = procs[p].update.SourcePanel
        /\ eventHistory[Len(eventHistory)].Version = state.Version.Version

(***************************************************************************)
(* The subscriber metadata and the bus mutex                               *)
(***************************************************************************)

\* task t stores a subscriber's metadata (meta.EventCount++ and the store into
\* subscriberMeta) in the loop of broadcastUnsafe or in BroadcastToPanel
WritesSubscriberMeta(t) ==
    /\ busTasks[t].pc \in {"send", "sendto"}
    /\ busTasks'[t] # busTasks[t]
    /\ \E p \in BusPanels : subscribers'[p].EventCount # subscribers[p].EventCount

\* C40 as stated: a task that modifies the subscriber metadata holds the bus
\* mutex exclusively while it does so: it is the writer and no other task
\* holds the mutex as a reader, so no two calls touch the metadata map at the
\* same time with one of them writing.
C40_MetadataWrittenUnderExclusiveMutex ==
    [][\A t \in BusTasks :
          WritesSubscriberMeta(t) => busMutex = [writer |-> t, readers |-> {}]]_vars

(***************************************************************************)
(* SpecHistory: the event history of the bus and its inspector             *)
(***************************************************************************)
\* the sources that publish on the bus
EventSources == {"system", "sessions"}

\* the event of the next publication: its version tells the events apart
NextEvent(source) ==
    [StateSyncEvent(state) EXCEPT !.Version = submitted + 1, !.SourcePanel = source]

\* EventBus.BroadcastToPanel: the event goes to the target if it is
\* subscribed, and not to the history.
BroadcastToPanel(subs, history, event, targetPanel) ==
    [ subscribers |-> IF subs[targetPanel].subscribed
                      THEN [subs EXCEPT ![targetPanel] = Send(@, event)]
                      ELSE subs,
      history |-> history ]

\* A variant of GetEventHistory that copies from the start of the buffer.
GetOldestEvents(history, maxEvents) ==
    LET historyLen == Len(history)
        count == IF maxEvents <= 0 \/ maxEvents > historyLen THEN historyLen ELSE maxEvents
    IN SubSeq(history, 1, count)

\* EventBus.GetEventHistory: a copy of the last maxEvents events, of all of
\* them when maxEvents is not positive or beyond the length.
GetEventHistory(history, maxEvents) ==
    LET historyLen == Len(history)
        count == IF maxEvents <= 0 \/ maxEvents > historyLen THEN historyLen ELSE maxEvents
        startIndex == historyLen - count
    IN SubSeq(history, startIndex + 1, historyLen)

\* the arguments the inspector is called with
InspectorArgs == (0 - 1)..(MaxHistory + 1)

\* a caller broadcasts an event of its own
PublishBroadcast(source) ==
    /\ submitted < MaxCalls
    /\ submitted' = submitted + 1
    /\ LET b == Broadcast(subscribers, eventHistory, NextEvent(source)) IN
        /\ subscribers' = b.subscribers
        /\ eventHistory' = b.history
    /\ published' = Append(published, NextEvent(source))
    /\ last' = [op |-> "broadcast", update |-> [NoUpdate EXCEPT !.SourcePanel = source],
                err |-> "nil"]
    /\ UNCHANGED <<state, strategy, inspected, conn, daemon, paneVars, diskVars, concVars,
                   delivered, lockVars>>

\* the coordinator sends an event to one panel
PublishToPanel(targetPanel) ==
    /\ submitted < MaxCalls
    /\ submitted' = submitted + 1
    /\ LET b == BroadcastToPanel(subscribers, eventHistory, NextEvent("system"), targetPanel) IN
        /\ subscribers' = b.subscribers
        /\ eventHistory' = b.history
    /\ last' = [op |-> "broadcast_to_panel",
                update |-> [NoUpdate EXCEPT !.SourcePanel = "system"], err |-> "nil"]
    /\ UNCHANGED <<state, strategy, ctlVars, diskVars, concVars, delivered, lockVars>>

\* EventBus.Subscribe(p, p, ch): its panel_connected event is broadcast
PublishSubscribe(p) ==
    /\ submitted < MaxCalls
    /\ submitted' = submitted + 1
    /\ LET b == SubscribeCall(subscribers, eventHistory, p, p) IN
        /\ subscribers' = b.subscribers
        /\ eventHistory' = b.history
    /\ published' = Append(published, ConnectionEvent("panel_connected", p, p))
    /\ last' = [op |-> "subscribe", update |-> [NoUpdate EXCEPT !.SourcePanel = p], err |-> "nil"]
    /\ UNCHANGED <<state, strategy, inspected, conn, daemon, paneVars, diskVars, concVars,
                   delivered, lockVars>>

\* EventBus.Unsubscribe(p): for a subscriber, its panel_disconnected event is
\* broadcast
PublishUnsubscribe(p) ==
    /\ submitted < MaxCalls
    /\ submitted' = submitted + 1
    /\ LET b == UnsubscribeCall(subscribers, eventHistory, p) IN
        /\ subscribers' = b.subscribers
        /\ eventHistory' = b.history
    /\ published' = IF subscribers[p].subscribed
                    THEN Append(published, ConnectionEvent("panel_disconnected", p,
                                                            subscribers[p].PanelType))
                    ELSE published
    /\ last' = [op |-> "unsubscribe", update |-> [NoUpdate EXCEPT !.SourcePanel = p], err |-> "nil"]
    /\ UNCHANGED <<state, strategy, inspected, conn, daemon, paneVars, diskVars, concVars,
                   delivered, lockVars>>

\* a caller reads the history: GetEventHistory(maxEvents)
InspectHistory(maxEvents) ==
    /\ inspected' = [maxEvents |-> maxEvents,
                     events |-> GetEventHistory(eventHistory, maxEvents)]
    /\ last' = [op |-> "history", update |-> NoUpdate, err |-> "nil"]
    /\ UNCHANGED <<state, eventHistory, strategy, submitted, published, conn, daemon, paneVars,
                   diskVars, concVars, busVars>>

NextHistory ==
    \/ \E source \in EventSources : PublishBroadcast(source)
    \/ \E p \in BusPanels : PublishToPanel(p)
    \/ \E p \in BusPanels : PublishSubscribe(p)
    \/ \E p \in BusPanels : PublishUnsubscribe(p)
    \/ \E maxEvents \in InspectorArgs : InspectHistory(maxEvents)
    \/ \E p \in BusPanels : Receive(p)

SpecHistory == Init /\ [][NextHistory]_vars

\* the last count elements of a sequence
LastOf(seq, count) == [i \in 1..count |-> seq[Len(seq) - count + i]]

\* the smaller of two numbers
Smaller(a, b) == IF a <= b THEN a ELSE b

\* a step that is a call of GetEventHistory
InspectStep == last'.op = "history" /\ <<last, inspected>>' # <<last, inspected>>

\* C36: after every step the history holds at most MaxHistory events, and
\* they are the most recently broadcast events in the order of their
\* broadcast; a call history(n) returns the last min(n, length) events of the
\* history, all of them when n <= 0, and leaves the history, the subscribers
\* and the mutex of the bus as they were.
C36_HistoryHoldsTheNewestEvents ==
    [][/\ Len(eventHistory') <= MaxHistory
       /\ eventHistory' = LastOf(published', Smaller(Len(published'), MaxHistory))
       /\ InspectStep =>
             /\ inspected'.events =
                   LastOf(eventHistory,
                          IF inspected'.maxEvents <= 0 THEN Len(eventHistory)
                          ELSE Smaller(inspected'.maxEvents, Len(eventHistory)))
             /\ UNCHANGED <<eventHistory, busVars>>]_vars

\* C36 witness: more events were broadcast than the history holds, and the
\* inspector asked for one event got the newest and not the oldest.
C36_Witness ==
    /\ Len(published) > MaxHistory
    /\ Len(eventHistory) = MaxHistory
    /\ last.op = "history"
    /\ inspected.maxEvents = 1
    /\ inspected.events = <<published[Len(published)]>>
    /\ inspected.events # <<eventHistory[1]>>

(***************************************************************************)
(* SpecIPC: one connection of the IPC server, its handshake and the frames *)
(* it reads, with the validators of the message protocol                   *)
(***************************************************************************)
\* the message type constants of the protocol
MessageTypes ==
    {"handshake", "handshake_response", "state_update", "state_update_response",
     "state_request", "state_response", "state_event", "ping", "pong", "error",
     "subscribe", "unsubscribe", "heartbeat"}

\* the types of the privileged control requests
ControlTypes == {"shutdown", "reload_layout", "status", "list_clients"}

ValidationError(field, message) == [Field |-> field, Message |-> message]

\* validPanelTypes of ValidateHandshake
validPanelTypes == {"sessions", "messages", "input", "controller"}

\* A variant of ValidateHandshake without the check of the panel type against
\* validPanelTypes.
ValidateHandshakeAnyPanel(msg) ==
    IF msg.Type # "handshake" THEN ValidationError("type", "must be 'handshake'")
    ELSE IF msg.PanelID = "" THEN ValidationError("panel_id", "cannot be empty")
    ELSE IF msg.PanelType = "" THEN ValidationError("panel_type", "cannot be empty")
    ELSE IF msg.Version = "" THEN ValidationError("version", "cannot be empty")
    ELSE NoValidationError

\* MessageValidator.ValidateHandshake
ValidateHandshake(msg) ==
    IF msg.Type # "handshake" THEN ValidationError("type", "must be 'handshake'")
    ELSE IF msg.PanelID = "" THEN ValidationError("panel_id", "cannot be empty")
    ELSE IF msg.PanelType = "" THEN ValidationError("panel_type", "cannot be empty")
    ELSE IF msg.PanelType \notin validPanelTypes
         THEN ValidationError("panel_type",
                              "must be one of: sessions, messages, input, controller")
    ELSE IF msg.Version = "" THEN ValidationError("version", "cannot be empty")
    ELSE NoValidationError

\* validTypes of ValidateIPCMessage
validTypes == MessageTypes

\* MessageValidator.ValidateIPCMessage
ValidateIPCMessage(msg) ==
    IF msg.Type = "" THEN ValidationError("type", "cannot be empty")
    ELSE IF msg.Type \notin validTypes THEN ValidationError("type", "unknown message type")
    ELSE IF msg.Timestamp = 0 THEN ValidationError("timestamp", "cannot be zero")
    ELSE NoValidationError

\* the handshakes a client may send
Handshakes ==
    [Type : {"handshake", "ping", ""},
     PanelID : {"", "p1"},
     PanelType : validPanelTypes \cup {"", "terminal"},
     Version : {"", "1.0"}]

\* the frames a client may send
Frames == [Type : MessageTypes \cup ControlTypes \cup {"", "bogus"}, Timestamp : {0, 1}]

\* the server reads the first message of the connection
ReadHandshake(msg) ==
    /\ conn.state = "Connected"
    /\ conn' = [conn EXCEPT !.state = "Handshaking", !.handshake = msg]
    /\ UNCHANGED <<appVars, inspectVars, daemon, paneVars, diskVars, concVars, busVars>>

\* the handshake is valid: the connection becomes Active
AcceptHandshake ==
    /\ conn.state = "Handshaking"
    /\ ValidateHandshake(conn.handshake) = NoValidationError
    /\ conn' = [conn EXCEPT !.state = "Active"]
    /\ UNCHANGED <<appVars, inspectVars, daemon, paneVars, diskVars, concVars, busVars>>

\* the handshake is not valid: the error is sent and the connection closed
RejectHandshake ==
    /\ conn.state = "Handshaking"
    /\ ValidateHandshake(conn.handshake) # NoValidationError
    /\ conn' = [conn EXCEPT !.state = "Closed", !.err = ValidateHandshake(conn.handshake)]
    /\ UNCHANGED <<appVars, inspectVars, daemon, paneVars, diskVars, concVars, busVars>>

\* the reader of an Active connection decodes a frame and validates it; a
\* frame that is not valid is answered with an error
ReadFrame(msg) ==
    /\ conn.state = "Active"
    /\ conn' = [conn EXCEPT !.frame = msg, !.err = ValidateIPCMessage(msg)]
    /\ UNCHANGED <<appVars, inspectVars, daemon, paneVars, diskVars, concVars, busVars>>

\* the client goes away or the server stops: Active, Closing, Closed
CloseConnection ==
    /\ conn.state \in {"Active", "Closing"}
    /\ conn' = [conn EXCEPT !.state = IF conn.state = "Active" THEN "Closing" ELSE "Closed"]
    /\ UNCHANGED <<appVars, inspectVars, daemon, paneVars, diskVars, concVars, busVars>>

NextIPC ==
    \/ \E msg \in Handshakes : ReadHandshake(msg)
    \/ AcceptHandshake
    \/ RejectHandshake
    \/ \E msg \in Frames : ReadFrame(msg)
    \/ CloseConnection

SpecIPC == Init /\ [][NextIPC]_vars

\* what the protocol asks of a handshake
WellFormedHandshake(msg) ==
    /\ msg.Type = "handshake"
    /\ msg.PanelID # ""
    /\ msg.PanelType \in {"sessions", "messages", "input", "controller"}
    /\ msg.Version # ""

\* C31: a handshake is accepted exactly when its type is handshake, its panel
\* id is not empty, its panel type is one of sessions, messages, input and
\* controller, and its version is present; with any other handshake the
\* validator returns an error, the connection is closed with that error and
\* is not Active, then or later.
C31_HandshakeAcceptedIffWellFormed ==
    [][/\ conn.state = "Handshaking" =>
             /\ (ValidateHandshake(conn.handshake) = NoValidationError)
                   <=> WellFormedHandshake(conn.handshake)
             /\ conn'.state # "Handshaking" =>
                   IF WellFormedHandshake(conn.handshake)
                   THEN conn'.state = "Active" /\ conn'.err = NoValidationError
                   ELSE conn'.state = "Closed" /\ conn'.err # NoValidationError
       /\ conn'.state \in {"Active", "Closing"} => WellFormedHandshake(conn'.handshake)
       /\ conn'.state = "Active" => conn.state \in {"Handshaking", "Active"}]_vars

\* C31 witness: a handshake with a panel id, a version and a panel type
\* outside the four was rejected for its panel type, and the connection is
\* closed.
C31_Witness ==
    /\ conn.state = "Closed"
    /\ conn.handshake = [Type |-> "handshake", PanelID |-> "p1", PanelType |-> "terminal",
                         Version |-> "1.0"]
    /\ conn.err.Field = "panel_type"

\* the message types of the protocol's taxonomy
Taxonomy ==
    {"handshake", "handshake_response", "subscribe", "unsubscribe", "state_update",
     "state_update_response", "state_request", "state_response", "state_event", "ping",
     "pong", "heartbeat", "error", "shutdown", "reload_layout", "status", "list_clients"}

\* C32 as stated: the validation of a frame accepts it exactly when its type
\* is one of the taxonomy, the four privileged control types included, and
\* its timestamp is set.
C32_FrameAcceptedIffInTaxonomy ==
    (conn.state = "Active" /\ conn.frame # NoFrame) =>
        ((conn.err = NoValidationError)
            <=> (conn.frame.Type \in Taxonomy /\ conn.frame.Timestamp # 0))

(***************************************************************************)
(* SpecShutdown: shutdown requests over IPC and the permission check of    *)
(* the orchestrator, while tmux clients attach and detach                  *)
(***************************************************************************)
\* the peers that send a shutdown request: the owner, another user and root
Requesters ==
    {sessionOwner, [UID |-> 1001, Username |-> "guest"], [UID |-> 0, Username |-> "root"]}

\* orch.triggerShutdown: the daemon stops running; cleanup tells whether the
\* tmux session is destroyed as well
triggerShutdown(orch, cleanup) == [orch EXCEPT !.running = FALSE, !.cleanup = cleanup]

\* A variant of Shutdown that asks for the owner only when cleanup is set.
ShutdownOwnerForCleanupOnly(orch, cleanup, requester, trackerFails) ==
    LET o == [orch EXCEPT !.request = [UID |-> requester.UID, cleanup |-> cleanup]] IN
    IF cleanup /\ requester.UID # sessionOwner.UID
    THEN [o EXCEPT !.err = "permission denied: only session owner can shutdown"]
    ELSE IF cleanup /\ ~trackerFails /\ Cardinality(orch.clients) > 1
    THEN [o EXCEPT !.err = "cannot cleanup: other client(s) still connected"]
    ELSE [triggerShutdown(o, cleanup) EXCEPT !.err = "nil"]

\* TmuxOrchestrator.Shutdown(cleanup, requester): the owner check, then for a
\* cleanup the check of the other clients (skipped when the client tracker
\* returns an error), then the shutdown.
Shutdown(orch, cleanup, requester, trackerFails) ==
    LET o == [orch EXCEPT !.request = [UID |-> requester.UID, cleanup |-> cleanup]] IN
    IF requester.UID # sessionOwner.UID
    THEN [o EXCEPT !.err = "permission denied: only session owner can shutdown"]
    ELSE IF cleanup /\ ~trackerFails /\ Cardinality(orch.clients) > 1
    THEN [o EXCEPT !.err = "cannot cleanup: other client(s) still connected"]
    ELSE [triggerShutdown(o, cleanup) EXCEPT !.err = "nil"]

\* a tmux client attaches to the session
ClientAttaches(c) ==
    /\ daemon.running
    /\ c \notin daemon.clients
    /\ daemon' = [daemon EXCEPT !.clients = @ \cup {c}]
    /\ UNCHANGED <<appVars, inspectVars, conn, paneVars, diskVars, concVars, busVars>>

\* a tmux client detaches
ClientDetaches(c) ==
    /\ c \in daemon.clients
    /\ daemon' = [daemon EXCEPT !.clients = @ \ {c}]
    /\ UNCHANGED <<appVars, inspectVars, conn, paneVars, diskVars, concVars, busVars>>

\* the IPC server hands a shutdown request of a peer to the orchestrator
ShutdownRequest(requester, cleanup, trackerFails) ==
    /\ submitted < MaxCalls
    /\ submitted' = submitted + 1
    /\ daemon.running
    /\ daemon' = Shutdown(daemon, cleanup, requester, trackerFails)
    /\ last' = [op |-> "shutdown", update |-> NoUpdate, err |-> daemon'.err]
    /\ UNCHANGED <<state, eventHistory, strategy, inspectVars, conn, paneVars, diskVars,
                   concVars, busVars>>

NextShutdown ==
    \/ \E c \in Clients : ClientAttaches(c)
    \/ \E c \in Clients : ClientDetaches(c)
    \/ \E requester \in Requesters : \E cleanup, trackerFails \in BOOLEAN :
          ShutdownRequest(requester, cleanup, trackerFails)

SpecShutdown == Init /\ [][NextShutdown]_vars

\* a step that is a shutdown request
ShutdownStep == last'.op = "shutdown" /\ submitted' = submitted + 1

FailureLimit == 2

\* A variant of the respawn that starts the default shell of tmux in the pane.
RespawnDefaultShell(pane, config) ==
    [alive |-> TRUE, command |-> "sh", env |-> "", respawned |-> pane.command # ""]

\* respawn-pane with the configured command and environment; respawned tells
\* that the pane had run a process before
RespawnPane(pane, config) ==
    [alive |-> TRUE, command |-> config.command, env |-> config.env,
     respawned |-> pane.command # ""]

\* start(): NotStarted -> Starting
StartSupervisor(t) ==
    /\ supervisors[t].state = "NotStarted"
    /\ ~supervisors[t].cancelled
    /\ supervisors' = [supervisors EXCEPT ![t].state = "Starting"]
    /\ UNCHANGED <<appVars, inspectVars, conn, daemon, panes, diskVars, concVars, busVars>>

\* Starting -ok-> Running: the process runs in the pane
PaneStarts(t) ==
    /\ supervisors[t].state = "Starting"
    /\ ~supervisors[t].cancelled
    /\ panes' = [panes EXCEPT ![t] = RespawnPane(@, PaneConfig(t))]
    /\ supervisors' = [supervisors EXCEPT ![t].state = "Running"]
    /\ UNCHANGED <<appVars, inspectVars, conn, daemon, diskVars, concVars, busVars>>

\* Starting -fail-> Failed: tmux could not start the process
PaneStartFails(t) ==
    /\ supervisors[t].state = "Starting"
    /\ ~supervisors[t].cancelled
    /\ supervisors' = [supervisors EXCEPT ![t].state = "Failed"]
    /\ UNCHANGED <<appVars, inspectVars, conn, daemon, panes, diskVars, concVars, busVars>>

\* the process in the pane exits
PaneExits(t) ==
    /\ panes[t].alive
    /\ panes' = [panes EXCEPT ![t].alive = FALSE]
    /\ UNCHANGED <<appVars, inspectVars, conn, daemon, supervisors, diskVars, concVars, busVars>>

\* the liveness check finds pane_dead: Running -dies-> Restarting, one more
\* consecutive failure
DetectDeadPane(t) ==
    /\ supervisors[t].state = "Running"
    /\ ~supervisors[t].cancelled
    /\ ~panes[t].alive
    /\ supervisors' = [supervisors EXCEPT ![t].state = "Restarting", ![t].failures = @ + 1]
    /\ UNCHANGED <<appVars, inspectVars, conn, daemon, panes, diskVars, concVars, busVars>>

\* a run that lasted long enough resets the backoff and the failures
StableRun(t) ==
    /\ supervisors[t].state = "Running"
    /\ ~supervisors[t].cancelled
    /\ panes[t].alive
    /\ supervisors[t].failures > 0
    /\ supervisors' = [supervisors EXCEPT ![t].failures = 0]
    /\ UNCHANGED <<appVars, inspectVars, conn, daemon, panes, diskVars, concVars, busVars>>

\* Restarting -backoff elapsed-> Starting
BackoffElapsed(t) ==
    /\ supervisors[t].state = "Restarting"
    /\ ~supervisors[t].cancelled
    /\ supervisors[t].failures < FailureLimit
    /\ supervisors' = [supervisors EXCEPT ![t].state = "Starting"]
    /\ UNCHANGED <<appVars, inspectVars, conn, daemon, panes, diskVars, concVars, busVars>>

\* Restarting -too many fails-> Failed
TooManyFailures(t) ==
    /\ supervisors[t].state = "Restarting"
    /\ ~supervisors[t].cancelled
    /\ supervisors[t].failures >= FailureLimit
    /\ supervisors' = [supervisors EXCEPT ![t].state = "Failed"]
    /\ UNCHANGED <<appVars, inspectVars, conn, daemon, panes, diskVars, concVars, busVars>>

\* the orchestrator's shutdown cancels the tokens of all supervisors
CancelSupervisors ==
    /\ \E t \in PaneTargets : ~supervisors[t].cancelled
    /\ supervisors' = [t \in PaneTargets |-> [supervisors[t] EXCEPT !.cancelled = TRUE]]
    /\ UNCHANGED <<appVars, inspectVars, conn, daemon, panes, diskVars, concVars, busVars>>

\* ctx done: the supervisor stops and leaves the pane as it is
SupervisorStops(t) ==
    /\ supervisors[t].cancelled
    /\ supervisors[t].state \notin {"Stopped", "Failed"}
    /\ supervisors' = [supervisors EXCEPT ![t].state = "Stopped"]
    /\ UNCHANGED <<appVars, inspectVars, conn, daemon, panes, diskVars, concVars, busVars>>

\* the steps a supervisor takes by itself
SupervisorStep(t) ==
    \/ PaneStarts(t)
    \/ PaneStartFails(t)
    \/ DetectDeadPane(t)
    \/ BackoffElapsed(t)
    \/ TooManyFailures(t)
    \/ SupervisorStops(t)

NextSupervisor ==
    \/ \E t \in PaneTargets : StartSupervisor(t)
    \/ \E t \in PaneTargets : PaneStarts(t)
    \/ \E t \in PaneTargets : PaneStartFails(t)
    \/ \E t \in PaneTargets : PaneExits(t)
    \/ \E t \in PaneTargets : DetectDeadPane(t)
    \/ \E t \in PaneTargets : StableRun(t)
    \/ \E t \in PaneTargets : BackoffElapsed(t)
    \/ \E t \in PaneTargets : TooManyFailures(t)
    \/ CancelSupervisors
    \/ \E t \in PaneTargets : SupervisorStops(t)

SpecSupervisor == Init /\ [][NextSupervisor]_vars

\* every supervisor keeps taking its steps: its ticker fires, its backoff
\* elapses, tmux answers
FairSpecSupervisor == SpecSupervisor /\ \A t \in PaneTargets : WF_vars(SupervisorStep(t))

\* the pane runs its configured command in its configured environment, after
\* a respawn
Respawned(t) ==
    /\ supervisors[t].state = "Running"
    /\ panes[t].alive
    /\ panes[t].respawned
    /\ panes[t].command = PaneConfig(t).command
    /\ panes[t].env = PaneConfig(t).env

\* C34: when the process of a pane has exited while the pane's supervisor is
\* Running and not cancelled, then eventually the pane runs again, respawned
\* with its configured command and environment, unless by then the
\* supervisor was cancelled or has given up (Failed).
C34_DeadPaneIsRespawned ==
    \A t \in PaneTargets :
        (supervisors[t].state = "Running" /\ ~supervisors[t].cancelled /\ ~panes[t].alive)
            ~> (Respawned(t) \/ supervisors[t].cancelled \/ supervisors[t].state = "Failed")

\* C34 witness: a pane whose process had exited was found dead (one failure
\* counted) and runs again with its configured command and environment, its
\* supervisor Running and not cancelled.
C34_Witness ==
    \E t \in PaneTargets :
        /\ Respawned(t)
        /\ supervisors[t].failures = 1
        /\ ~supervisors[t].cancelled

====
